---- MODULE Spec2Model ----
(***************************************************************************)
(* arrpc: the process detection engine (src/process/index.ts), the         *)
(* detectable database ingest (src/process/downloader.ts) and the native   *)
(* IPC transport (unnamed/part_001).                                       *)
(*                                                                         *)
(* A JavaScript string is a sequence of one-character strings; the NUL     *)
(* character of the cache key is written "NUL".                            *)
(***************************************************************************)
EXTENDS Integers, Sequences, FiniteSets, TLC

(***************************************************************************)
(* String primitives of the JavaScript runtime used by the program.        *)
(***************************************************************************)
UpperChars == <<"A","B","C","D","E","F","G","H","I","J","K","L","M",
                "N","O","P","Q","R","S","T","U","V","W","X","Y","Z">>
LowerChars == <<"a","b","c","d","e","f","g","h","i","j","k","l","m",
                "n","o","p","q","r","s","t","u","v","w","x","y","z">>

LowerChar(c) ==
    IF \E i \in 1..Len(UpperChars) : UpperChars[i] = c
    THEN LowerChars[CHOOSE i \in 1..Len(UpperChars) : UpperChars[i] = c]
    ELSE c

\* String.prototype.toLowerCase
ToLowerCase(s) == [i \in 1..Len(s) |-> LowerChar(s[i])]

\* String.prototype.replaceAll(a, b) for one-character a and b
ReplaceAllChar(s, a, b) == [i \in 1..Len(s) |-> IF s[i] = a THEN b ELSE s[i]]

\* String.prototype.indexOf, 1-based; 0 when pat does not occur
IndexOf(s, pat) ==
    IF Len(pat) = 0 THEN 1
    ELSE IF \E i \in 1..(Len(s) - Len(pat) + 1) : SubSeq(s, i, i + Len(pat) - 1) = pat
    THEN CHOOSE i \in 1..(Len(s) - Len(pat) + 1) :
            /\ SubSeq(s, i, i + Len(pat) - 1) = pat
            /\ \A j \in 1..(i - 1) : SubSeq(s, j, j + Len(pat) - 1) # pat
    ELSE 0

Includes(s, pat) == IndexOf(s, pat) # 0

StartsWith(s, pat) == Len(pat) <= Len(s) /\ SubSeq(s, 1, Len(pat)) = pat

EndsWith(s, pat) ==
    Len(pat) <= Len(s) /\ SubSeq(s, Len(s) - Len(pat) + 1, Len(s)) = pat

\* String.prototype.replace(pat, rep) with a string pattern: first occurrence only
ReplaceFirst(s, pat, rep) ==
    LET i == IndexOf(s, pat)
    IN  IF i = 0 THEN s
        ELSE SubSeq(s, 1, i - 1) \o rep \o SubSeq(s, i + Len(pat), Len(s))

\* String.prototype.replace(/pat/g, rep) for a literal, non-empty pattern
RECURSIVE ReplaceAll(_, _, _)
ReplaceAll(s, pat, rep) ==
    LET i == IndexOf(s, pat)
    IN  IF i = 0 THEN s
        ELSE SubSeq(s, 1, i - 1) \o rep
                \o ReplaceAll(SubSeq(s, i + Len(pat), Len(s)), pat, rep)

\* s.split("/").pop(): the text after the last "/"
LastSegment(s) ==
    LET slashes == {i \in 1..Len(s) : s[i] = "/"}
    IN  IF slashes = {} THEN s
        ELSE SubSeq(s, (CHOOSE i \in slashes : \A j \in slashes : j <= i) + 1, Len(s))

\* Array.prototype.join(sep)
RECURSIVE Join(_, _)
Join(list, sep) ==
    IF Len(list) = 0 THEN <<>>
    ELSE IF Len(list) = 1 THEN list[1]
    ELSE list[1] \o sep \o Join(Tail(list), sep)

\* Number.prototype.toString for a natural number
RECURSIVE ToDecimal(_)
ToDecimal(n) ==
    LET digits == <<"0","1","2","3","4","5","6","7","8","9">>
    IN  IF n < 10 THEN <<digits[n + 1]>>
        ELSE ToDecimal(n \div 10) \o <<digits[(n % 10) + 1]>>

(***************************************************************************)
(* downloader.ts: ingest of the detectable database.                       *)
(***************************************************************************)
\* process.platform of the host running the ingest
CurrentPlatform == "linux"

s_lms_exe      == <<"l","m","s",".","e","x","e">>
s_project8_exe == <<"p","r","o","j","e","c","t","8",".","e","x","e">>
s_deadlock_exe == <<"d","e","a","d","l","o","c","k",".","e","x","e">>
s_dot_exe      == <<".","e","x","e">>

\* the body of the loop over game.executables: the executable kept, or <<>>
TransformExec(exec) ==
    IF exec.name = <<>> THEN <<>>
    ELSE IF exec.name = s_lms_exe THEN <<>>
    ELSE IF /\ exec.os # ""
            /\ ~(exec.os = CurrentPlatform)
            /\ ~(CurrentPlatform = "linux" /\ exec.os = "win32")
    THEN <<>>
    ELSE LET n1 == IF EndsWith(exec.name, s_project8_exe)
                   THEN ReplaceFirst(exec.name, s_project8_exe, s_deadlock_exe)
                   ELSE exec.name
             isStrict == StartsWith(n1, <<">">>)
             n2 == IF isStrict THEN SubSeq(n1, 2, Len(n1)) ELSE n1
         IN  <<[n |-> ToLowerCase(n2),
                a |-> exec.arguments,
                s |-> IF isStrict THEN 1 ELSE 0]>>

RECURSIVE TransformExecs(_)
TransformExecs(execs) ==
    IF Len(execs) = 0 THEN <<>>
    ELSE TransformExec(Head(execs)) \o TransformExecs(Tail(execs))

\* transformObject: raw games to DetectableGame records [i, n, e]
RECURSIVE transformObject(_)
transformObject(all) ==
    IF Len(all) = 0 THEN <<>>
    ELSE LET game == Head(all)
             processedExecs == TransformExecs(game.executables)
         IN  (IF game.id = "" \/ game.name = "" THEN <<>>
              ELSE IF Len(processedExecs) = 0 THEN <<>>
              ELSE <<[i |-> game.id, n |-> game.name, e |-> processedExecs]>>)
             \o transformObject(Tail(all))

(***************************************************************************)
(* index.ts: the Detection Index built by init().                          *)
(***************************************************************************)
\* the (key, game) pairs pushed by the two loops of init(), in push order
RECURSIVE ExecKeys(_, _)
ExecKeys(game, execs) ==
    IF Len(execs) = 0 THEN <<>>
    ELSE <<[key |-> LastSegment(ToLowerCase(Head(execs).n)), game |-> game]>>
            \o ExecKeys(game, Tail(execs))

RECURSIVE IndexEntries(_)
IndexEntries(games) ==
    IF Len(games) = 0 THEN <<>>
    ELSE ExecKeys(Head(games), Head(games).e) \o IndexEntries(Tail(games))

RECURSIVE GamesOfKey(_, _)
GamesOfKey(entries, key) ==
    IF Len(entries) = 0 THEN <<>>
    ELSE (IF Head(entries).key = key THEN <<Head(entries).game>> ELSE <<>>)
            \o GamesOfKey(Tail(entries), key)

\* detectionMap: key -> list of games
BuildDetectionMap(games) ==
    LET entries == IndexEntries(games)
        keys == {entries[i].key : i \in 1..Len(entries)}
    IN  [k \in keys |-> GamesOfKey(entries, k)]

(***************************************************************************)
(* index.ts: exclusion rules, candidate keys, executable match test.       *)
(***************************************************************************)
s_proc       == <<"/","p","r","o","c">>
s_usr_lib    == <<"/","u","s","r","/","l","i","b","/">>
s_systemd    == <<"s","y","s","t","e","m","d">>
s_c_windows  == <<"c",":","/","w","i","n","d","o","w","s">>
s_webhelper  == <<"w","e","b","h","e","l","p","e","r">>
s_bin_dolphin == <<"/","b","i","n","/","d","o","l","p","h","i","n">>

isValidProcess(pid, path) ==
    /\ pid # 1
    /\ Len(path) >= 1
    /\ ~StartsWith(path, s_proc)
    /\ ~StartsWith(path, s_usr_lib)
    /\ ~Includes(path, s_systemd)
    /\ ~StartsWith(path, s_c_windows)
    /\ ~Includes(path, s_webhelper)
    /\ ~EndsWith(path, s_bin_dolphin)

stripBitness(name) ==
    ReplaceAll(ReplaceAll(ReplaceAll(ReplaceAll(name,
        <<".","x","6","4">>, <<>>),
        <<"_","6","4">>, <<>>),
        <<"x","6","4">>, <<>>),
        <<"6","4">>, <<>>)

\* Set.add: append unless already a member (insertion order is iteration order)
SetAdd(list, x) ==
    IF \E i \in 1..Len(list) : list[i] = x THEN list ELSE Append(list, x)

\* the candidate keys of a filename, in the order the scan tries them
Candidates(filename) ==
    LET noExt == ReplaceFirst(filename, s_dot_exe, <<>>)
    IN  SetAdd(SetAdd(SetAdd(<<filename>>, noExt),
                      stripBitness(filename)),
               stripBitness(noExt))

\* Filter 1 of checkGameMatch: the argument requirement of an entry
ArgsSatisfied(exec, args) ==
    exec.a = <<>> \/ Includes(ToLowerCase(Join(args, <<" ">>)), ToLowerCase(exec.a))

\* the strict comparison with the filename taken from the lookup key instead
StrictMatchByCandidate(dbExecName, candidateKey, filename) ==
    dbExecName = candidateKey

\* Filter 2 of checkGameMatch: strict entries compare with the filename only
StrictMatch(dbExecName, candidateKey, filename) ==
    dbExecName = filename

\* Filter 3 of checkGameMatch: loose matching
LooseMatch(dbExecName, candidateKey, filename, fullPath, cwdPath) ==
    \/ dbExecName = filename
    \/ dbExecName = ReplaceFirst(filename, s_dot_exe, <<>>)
    \/ dbExecName = filename \o s_dot_exe
    \/ Includes(cwdPath \o <<"/">> \o fullPath, <<"/">> \o dbExecName)
    \/ dbExecName = candidateKey

\* the callback of game.e.some(...)
ExecMatches(exec, candidateKey, filename, fullPath, cwdPath, args) ==
    IF ~ArgsSatisfied(exec, args) THEN FALSE
    ELSE IF exec.s = 1 THEN StrictMatch(exec.n, candidateKey, filename)
    ELSE LooseMatch(exec.n, candidateKey, filename, fullPath, cwdPath)

checkGameMatch(game, candidateKey, filename, fullPath, cwdPath, args) ==
    \E k \in 1..Len(game.e) :
        ExecMatches(game.e[k], candidateKey, filename, fullPath, cwdPath, args)

(***************************************************************************)
(* index.ts: one scan.  Records (Record<string, T>) and Maps are functions *)
(* from keys to values; a Map whose iteration order matters is a sequence. *)
(***************************************************************************)
EmptyMap == [x \in {} |-> 0]

Put(f, k, v) == [x \in (DOMAIN f) \cup {k} |-> IF x = k THEN v ELSE f[x]]

Remove(f, k) == [x \in (DOMAIN f) \ {k} |-> f[x]]

\* rawPath and cwdPath: toLowerCase().replaceAll("\\", "/")
NormalizePath(p) == ReplaceAllChar(ToLowerCase(p), "\\", "/")

\* `${rawPath}\0${args}` + " " + `${cwdPath}`; an array in a template is joined by ","
CacheKey(rawPath, args, cwdPath) ==
    rawPath \o <<"NUL">> \o Join(args, <<",">>) \o <<" ">> \o cwdPath

\* this.timestamps[id] || Date.now()
TimestampOrNow(ts, id, nowv) ==
    IF id \in DOMAIN ts /\ ts[id] # 0 THEN ts[id] ELSE nowv

\* Map.prototype.set on detectedGames: an existing key keeps its position
MapSet(detected, g) ==
    IF \E i \in 1..Len(detected) : detected[i].id = g.id
    THEN [i \in 1..Len(detected) |-> IF detected[i].id = g.id THEN g ELSE detected[i]]
    ELSE Append(detected, g)

\* a cache hit that keeps the timestamp stored in the cached object
StaleCachedTimestamp(cached, ts, nowv) == cached.timestamp

\* line 147: the timestamp given to a cached object on a cache hit
CachedTimestamp(cached, ts, nowv) == TimestampOrNow(ts, cached.id, nowv)

\* the (candidate, game) pairs visited by the loops of lines 172-198, in order
RECURSIVE Lookups(_, _)
Lookups(cands, dmap) ==
    IF Len(cands) = 0 THEN <<>>
    ELSE (IF Head(cands) \in DOMAIN dmap
          THEN [i \in 1..Len(dmap[Head(cands)]) |->
                    [candidate |-> Head(cands), game |-> dmap[Head(cands)][i]]]
          ELSE <<>>)
         \o Lookups(Tail(cands), dmap)

\* lines 139-141 and 150-154: what the scan derives from a process entry alone
ProcessView(proc) ==
    LET rawPath == NormalizePath(proc.path)
        cwdPath == NormalizePath(proc.cwd)
    IN  [rawPath |-> rawPath, cwdPath |-> cwdPath,
         key |-> CacheKey(rawPath, proc.args, cwdPath),
         valid |-> isValidProcess(proc.pid, rawPath),
         filename |-> LastSegment(rawPath)]

\* lines 176-186: the visited pairs whose game passes checkGameMatch, in order
RECURSIVE MatchingGames(_, _, _)
MatchingGames(pairs, view, args) ==
    IF Len(pairs) = 0 THEN <<>>
    ELSE (IF checkGameMatch(Head(pairs).game, Head(pairs).candidate, view.filename,
                            view.rawPath, view.cwdPath, args)
          THEN <<Head(pairs).game>> ELSE <<>>)
         \o MatchingGames(Tail(pairs), view, args)

\* lines 150-198 for a process that is not in the cache: whether it reaches the
\* lookup, and the games matched, in the order the loops find them
MatchProcess(proc, dmap) ==
    LET view == ProcessView(proc)
    IN  IF ~view.valid \/ view.filename = <<>>
        THEN [examined |-> FALSE, games |-> <<>>]
        ELSE [examined |-> TRUE,
              games |-> MatchingGames(Lookups(Candidates(view.filename), dmap),
                                      view, proc.args)]

\* lines 188-195 for each matched game; st is the scan's working state
RECURSIVE RecordMatches(_, _, _, _, _, _)
RecordMatches(st, games, idx, pid, key, env) ==
    IF Len(games) = 0 THEN st
    ELSE LET game == Head(games)
             match == [id |-> game.i, name |-> game.n, pid |-> pid,
                       timestamp |-> TimestampOrNow(env.ts, game.i, env.now)]
         IN  RecordMatches([st EXCEPT !.detected = MapSet(st.detected, match),
                                      !.cache = Put(st.cache, key, match),
                                      !.hits = st.hits \cup {<<idx, game.i>>}],
                           Tail(games), idx, pid, key, env)

\* the body of the loop over the process list (lines 138-200) for process idx;
\* env.view and env.match tabulate ProcessView and MatchProcess
ScanProcess(st0, proc, idx, env) ==
    LET key == env.view[proc].key
        st  == [st0 EXCEPT !.seen = st0.seen \cup {key}]
    IN  IF key \in DOMAIN st.cache
        THEN LET cached == [st.cache[key] EXCEPT
                               !.pid = proc.pid,
                               !.timestamp = CachedTimestamp(st.cache[key], env.ts, env.now)]
             IN  [st EXCEPT !.cache = Put(st.cache, key, cached),
                            !.detected = MapSet(st.detected, cached),
                            !.hits = st.hits \cup {<<idx, cached.id>>}]
        ELSE LET m == env.match[env.dmap][proc]
             IN  IF ~m.examined THEN st
                 ELSE RecordMatches([st EXCEPT !.fresh = st.fresh \cup {idx}],
                                    m.games, idx, proc.pid, key, env)

RECURSIVE ScanProcesses(_, _, _, _)
ScanProcesses(st, processes, idx, env) ==
    IF idx > Len(processes) THEN st
    ELSE ScanProcesses(ScanProcess(st, processes[idx], idx, env), processes, idx + 1, env)

\* the message passed to handlers.message; null = TRUE is activity: null
SetActivity(id, name, start, pid) ==
    [socketId |-> id, null |-> FALSE, application_id |-> id, name |-> name,
     start |-> start, pid |-> pid]

ClearActivity(id, pid) ==
    [socketId |-> id, null |-> TRUE, application_id |-> "", name |-> "",
     start |-> 0, pid |-> pid]

\* the loop of handleScanResults (lines 285-311); es is the engine state so far
RECURSIVE HandleGames(_, _)
HandleGames(es, games) ==
    IF Len(games) = 0 THEN es
    ELSE LET g == Head(games)
             ts2 == IF g.id \notin DOMAIN es.timestamps \/ es.timestamps[g.id] = 0
                    THEN Put(es.timestamps, g.id, g.timestamp)
                    ELSE es.timestamps
         IN  HandleGames(
                [timestamps |-> ts2,
                 names  |-> Put(es.names, g.id, g.name),
                 pids   |-> Put(es.pids, g.id, g.pid),
                 events |-> Append(es.events, SetActivity(g.id, g.name, ts2[g.id], g.pid))],
                Tail(games))

\* the signature of a process entry (line 141)
EngineKey(proc) ==
    CacheKey(NormalizePath(proc.path), proc.args, NormalizePath(proc.cwd))

\* Object.keys(this.timestamps): integer-like keys in ascending order
RECURSIVE KeysInOrder(_, _)
KeysInOrder(order, keys) ==
    IF Len(order) = 0 THEN <<>>
    ELSE (IF Head(order) \in keys THEN <<Head(order)>> ELSE <<>>)
            \o KeysInOrder(Tail(order), keys)

\* a cleanup that forgets the pid before reading it
ClosingPidForgotten(pids, id) == 0

\* line 323: the pid carried by the clear event
ClosingPid(pids, id) == IF id \in DOMAIN pids THEN pids[id] ELSE 0

\* a cleanup that leaves the start timestamp of a lost game in place
KeepTimestamp(ts, id) == ts

\* line 325: delete this.timestamps[id]
DeleteTimestamp(ts, id) == Remove(ts, id)

\* cleanupLostGames (lines 316-341)
RECURSIVE CleanupIds(_, _, _)
CleanupIds(es, currentIds, activeIds) ==
    IF Len(currentIds) = 0 THEN es
    ELSE LET id == Head(currentIds)
         IN  IF id \in activeIds THEN CleanupIds(es, Tail(currentIds), activeIds)
             ELSE CleanupIds(
                    [timestamps |-> DeleteTimestamp(es.timestamps, id),
                     names  |-> Remove(es.names, id),
                     pids   |-> Remove(es.pids, id),
                     events |-> Append(es.events, ClearActivity(id, ClosingPid(es.pids, id)))],
                    Tail(currentIds), activeIds)


\* a handleScanResults that does not call cleanupLostGames
WithoutCleanup(es, games) == HandleGames(es, games)

\* handleScanResults (lines 282-314): the set events, then the cleanup
handleScanResults(es, games) ==
    LET es1 == HandleGames(es, games)
        activeIds == {games[i].id : i \in 1..Len(games)}
        \* ids of the model are integer-like, so Object.keys is ascending
        order == <<"1", "2", "3", "4", "5", "6">>
    IN  CleanupIds(es1, KeysInOrder(order, DOMAIN es1.timestamps), activeIds)

\* handleScanResults when handlers.message throws on its n-th call (lines 295
\* and 329): what was assigned before that call stays, the rest does not run
handleScanResultsThrowing(es, games, n) ==
    IF n <= Len(games) THEN HandleGames(es, SubSeq(games, 1, n))
    ELSE LET es1 == HandleGames(es, games)
             activeIds == {games[i].id : i \in 1..Len(games)}
             order == <<"1", "2", "3", "4", "5", "6">>
             lost == SelectSeq(KeysInOrder(order, DOMAIN es1.timestamps),
                               LAMBDA id : id \notin activeIds)
         IN  CleanupIds(es1, SubSeq(lost, 1, n - Len(games)), activeIds)

\* lines 213-215: `for (const key in globalCacheKeys)` walks the array's
\* indices "0", "1", ..., and cache.delete is called with each index
SweepDeleted(fetchedCacheKeys, globalCacheKeys) ==
    {ToDecimal(i) : i \in 0..(Cardinality(globalCacheKeys) - 1)}

\* lines 204-219: cache maintenance at the end of a scan
SweepCache(c, seen) ==
    IF Cardinality(DOMAIN c) > Cardinality(seen) * 2
    THEN [k \in (DOMAIN c) \ SweepDeleted(seen, DOMAIN c) |-> c[k]]
    ELSE c

\* lines 136-219: everything a scan does once the process list has arrived
ScanBody(processes, c, ts, nm, pd, dmap, nowv, tables) ==
    LET env == [ts |-> ts, now |-> nowv, dmap |-> dmap,
                view |-> tables.view, match |-> tables.match]
        st  == ScanProcesses([cache |-> c, detected |-> <<>>, seen |-> {},
                              hits |-> {}, fresh |-> {}], processes, 1, env)
        es  == handleScanResults([timestamps |-> ts, names |-> nm, pids |-> pd,
                                  events |-> <<>>], st.detected)
    IN  [cache |-> SweepCache(st.cache, st.seen),
         timestamps |-> es.timestamps, names |-> es.names, pids |-> es.pids,
         events |-> es.events, detected |-> st.detected, seen |-> st.seen,
         hits |-> st.hits, fresh |-> st.fresh,
         swept |-> Cardinality(DOMAIN st.cache) > Cardinality(st.seen) * 2]

(***************************************************************************)
(* Inputs: raw databases and process lists.                                *)
(***************************************************************************)
RawExec(name, os, arguments) == [name |-> name, os |-> os, arguments |-> arguments]

RawGame(id, name, executables) == [id |-> id, name |-> name, executables |-> executables]

Proc(pid, path, args, cwd) == [pid |-> pid, path |-> path, args |-> args, cwd |-> cwd]

g_loose  == RawGame("1", "Example Game", <<RawExec(<<"g","a","m","e",".","e","x","e">>, "win32", <<>>)>>)
g_strict == RawGame("2", "Strict Game",
                <<RawExec(<<">","G","a","m","e",".","e","x","e">>, "", <<>>),
                  RawExec(<<"l","m","s",".","e","x","e">>, "", <<>>)>>)
g_path   == RawGame("3", "Path Game",
                <<RawExec(<<"m","a","c",".","a","p","p">>, "darwin", <<>>),
                  RawExec(<<"b","i","n","/","t","o","o","l">>, "linux", <<"-","x">>)>>)
g_noid   == RawGame("", "No Id", <<RawExec(<<"g","a","m","e",".","e","x","e">>, "", <<>>)>>)
g_noexec == RawGame("4", "Mac Only", <<RawExec(<<"g","a","m","e",".","e","x","e">>, "darwin", <<>>)>>)

RawDBs == {<<g_loose, g_strict, g_path, g_noid>>,
           <<g_noexec, g_path, g_strict, g_loose>>}

p_game   == Proc(42, <<"C",":","\\","G","a","m","e","s","\\","g","a","m","e",".","e","x","e">>, <<>>, <<"C",":","\\","G","a","m","e","s">>)
p_game64 == Proc(43, <<"c",":","/","g","a","m","e","s","/","g","a","m","e","6","4",".","e","x","e">>, <<>>, <<>>)
p_tool   == Proc(44, <<"/","o","p","t","/","b","i","n","/","t","o","o","l">>, <<<<"-","v">>,<<"-","X">>>>, <<"/","o","p","t">>)
p_lib    == Proc(45, <<"/","u","s","r","/","l","i","b","/","g","a","m","e",".","e","x","e">>, <<>>, <<>>)

p_game2  == Proc(52, <<"C",":","\\","G","a","m","e","s","\\","g","a","m","e",".","e","x","e">>, <<>>, <<"C",":","\\","G","a","m","e","s">>)

ProcessUniverse == {p_game, p_game2, p_game64, p_tool, p_lib}

\* the process lists getProcesses() returns in the model
ProcessLists ==
    {<<>>, <<p_game>>, <<p_game64>>, <<p_tool>>, <<p_lib, p_game64>>,
     <<p_game, p_game64>>, <<p_game64, p_game>>, <<p_game, p_game2>>,
     <<p_tool, p_game64, p_game>>}

\* ProcessView and MatchProcess tabulated over the inputs of the model
Tabulate(rawDBs, procs) ==
    [view  |-> [p \in procs |-> ProcessView(p)],
     match |-> [d \in {BuildDetectionMap(transformObject(raw)) : raw \in rawDBs} |->
                    [p \in procs |-> MatchProcess(p, d)]]]

EngineTables == Tabulate(RawDBs, ProcessUniverse)

(***************************************************************************)
(* unnamed/part_001: the native transport.  A byte is a number 0..255, a   *)
(* text is a sequence of characters, a JSON value is a record: t is its    *)
(* type, n its number, s its text, m its members in insertion order.       *)
(***************************************************************************)
Types == [HANDSHAKE |-> 0, FRAME |-> 1, CLOSE |-> 2, PING |-> 3, PONG |-> 4]

CloseCodes == [CLOSE_NORMAL |-> 1000, CLOSE_UNSUPPORTED |-> 1003, CLOSE_ABNORMAL |-> 1006]

ErrorCodes ==
    [INVALID_CLIENTID |-> 4000, INVALID_ORIGIN |-> 4001, RATELIMITED |-> 4002,
     TOKEN_REVOKED |-> 4003, INVALID_VERSION |-> 4004, INVALID_ENCODING |-> 4005]

MAX_IPC_PAYLOAD == 5 * 1024 * 1024

JUndefined == [t |-> "undefined", n |-> 0, s |-> <<>>, m |-> <<>>]
JNull == [t |-> "null", n |-> 0, s |-> <<>>, m |-> <<>>]
JNum(n) == [t |-> "num", n |-> n, s |-> <<>>, m |-> <<>>]
JStr(s) == [t |-> "str", n |-> 0, s |-> s, m |-> <<>>]
JObj(m) == [t |-> "obj", n |-> 0, s |-> <<>>, m |-> m]

\* the printable characters in the order of their codes, from 32
Ascii ==
    <<" ","!","\"","#","$","%","&","'","(",")","*","+",",","-",".","/",
      "0","1","2","3","4","5","6","7","8","9",":",";","<","=",">","?",
      "@","A","B","C","D","E","F","G","H","I","J","K","L","M","N","O",
      "P","Q","R","S","T","U","V","W","X","Y","Z","[","\\","]","^","_",
      "GRAVE","a","b","c","d","e","f","g","h","i","j","k","l","m","n","o",
      "p","q","r","s","t","u","v","w","x","y","z","{","|","}","~">>

CharCode == [c \in {Ascii[i] : i \in 1..Len(Ascii)} |-> 31 + (CHOOSE i \in 1..Len(Ascii) : Ascii[i] = c)]

\* Buffer.write(text) / Buffer.toString("utf8") on such characters
Utf8(text) == [i \in 1..Len(text) |-> CharCode[text[i]]]

\* JSON.stringify
RECURSIVE JSONstringify(_)
JSONstringify(x) ==
    CASE x.t = "num" -> ToDecimal(x.n)
      [] x.t = "str" -> <<"\"">> \o x.s \o <<"\"">>
      [] x.t = "null" -> <<"n", "u", "l", "l">>
      [] x.t = "obj" ->
            <<"{">> \o Join([i \in 1..Len(x.m) |->
                                <<"\"">> \o x.m[i].k \o <<"\"", ":">> \o JSONstringify(x.m[i].v)],
                            <<",">>) \o <<"}">>

\* Buffer.writeInt32LE: four bytes, least significant first, two's complement
writeInt32LE(n) ==
    LET low == IF n < 0 THEN (n + 2147483647) + 1 ELSE n
    IN  <<low % 256, (low \div 256) % 256, (low \div 65536) % 256,
          (low \div 16777216) + (IF n < 0 THEN 128 ELSE 0)>>

\* Buffer.readInt32LE(offset)
readInt32LE(buf, offset) ==
    LET low == buf[offset + 1] + 256 * buf[offset + 2] + 65536 * buf[offset + 3]
        top == buf[offset + 4]
    IN  IF top >= 128 THEN (((top - 128) * 16777216 + low) - 2147483647) - 1
        ELSE top * 16777216 + low

encode(type, data) ==
    LET stringData == Utf8(JSONstringify(data))
        dataSize == Len(stringData)
    IN  writeInt32LE(type) \o writeInt32LE(dataSize) \o stringData

\* x.key of a parsed value: undefined unless x is an object that has the key
Member(x, key) ==
    LET at == {i \in 1..Len(x.m) : x.m[i].k = key}
    IN  IF x.t = "obj" /\ at # {} THEN x.m[CHOOSE i \in at : \A j \in at : j <= i].v
        ELSE JUndefined

\* x ?? dflt, keeping x for a nullish x
KeepNullish(x, dflt) == x

\* x ?? dflt
Coalesce(x, dflt) == IF x.t \in {"undefined", "null"} THEN dflt ELSE x

\* String(x)
StringOf(x) ==
    CASE x.t = "num" -> ToDecimal(x.n)
      [] x.t \in {"str", "arr"} -> x.s
      [] x.t = "null" -> <<"n", "u", "l", "l">>
      [] x.t = "undefined" -> <<"u", "n", "d", "e", "f", "i", "n", "e", "d">>
      [] x.t = "obj" -> <<"[", "o", "b", "j", "e", "c", "t", " ", "O", "b", "j", "e", "c", "t", "]">>

NaN == [nan |-> TRUE, n |-> 0]
Number(n) == [nan |-> FALSE, n |-> n]

RECURSIVE TrimStart(_)
TrimStart(s) == IF s # <<>> /\ s[1] = " " THEN TrimStart(Tail(s)) ELSE s

Digits == <<"0", "1", "2", "3", "4", "5", "6", "7", "8", "9">>

RECURSIVE DigitPrefix(_)
DigitPrefix(s) ==
    IF s # <<>> /\ s[1] \in {Digits[i] : i \in 1..10} THEN <<s[1]>> \o DigitPrefix(Tail(s))
    ELSE <<>>

RECURSIVE DigitsValue(_)
DigitsValue(d) ==
    IF d = <<>> THEN 0
    ELSE 10 * DigitsValue(SubSeq(d, 1, Len(d) - 1))
         + ((CHOOSE i \in 1..10 : Digits[i] = d[Len(d)]) - 1)

\* parseInt(x, 10): the text of x without leading blanks, an optional sign,
\* then the longest run of digits; NaN when there is no digit
parseInt(x) ==
    LET text == TrimStart(StringOf(x))
        signed == text # <<>> /\ text[1] \in {"+", "-"}
        digits == DigitPrefix(IF signed THEN Tail(text) ELSE text)
    IN  IF digits = <<>> THEN NaN
        ELSE Number(IF signed /\ text[1] = "-" THEN 0 - DigitsValue(digits)
                    ELSE DigitsValue(digits))

\* a value that `!x` takes for false
Falsy(x) ==
    \/ x.t \in {"undefined", "null"}
    \/ x.t = "num" /\ x.n = 0
    \/ x.t = "str" /\ x.s = <<>>

k_v == <<"v">>
k_client_id == <<"c", "l", "i", "e", "n", "t", "_", "i", "d">>
k_cmd == <<"c", "m", "d">>
k_args == <<"a", "r", "g", "s">>
k_code == <<"c", "o", "d", "e">>
k_message == <<"m", "e", "s", "s", "a", "g", "e">>

\* the payload of a CLOSE frame the server writes (lines 204-207, 225)
CloseDoc(code, message) ==
    JObj(<<[k |-> k_code, v |-> JNum(code)], [k |-> k_message, v |-> JStr(message)]>>)

(***************************************************************************)
(* What clients of the model send.                                         *)
(***************************************************************************)
VersionValues ==
    {JUndefined, JNum(1), JNum(2), JStr(<<"1">>), JStr(<<"2">>), JStr(<<"1", "x">>)}

ClientIdValues == {JUndefined, JNull, JStr(<<>>), JStr(<<"a">>)}

HandshakeParams(v, clientId) ==
    JObj((IF v = JUndefined THEN <<>> ELSE <<[k |-> k_v, v |-> v]>>)
         \o (IF clientId = JUndefined THEN <<>> ELSE <<[k |-> k_client_id, v |-> clientId]>>))

HandshakeDocs == {HandshakeParams(v, c) : v \in VersionValues, c \in ClientIdValues} \cup {JNull}

d_hello == HandshakeParams(JNum(1), JStr(<<"a">>))
d_again == HandshakeParams(JNum(1), JStr(<<"b">>))
d_request == JObj(<<[k |-> k_cmd, v |-> JStr(<<"A">>)], [k |-> k_args, v |-> JObj(<<>>)]>>)
d_nocmd == JObj(<<[k |-> k_args, v |-> JNum(1)]>>)
d_ping == JNum(7)
d_empty == JObj(<<>>)

\* a frame on the wire: its type, its payload text, and the value the text
\* was made from
MkFrame(type, data) ==
    LET text == JSONstringify(data)
    IN  [type |-> type, data |-> data, text |-> text, size |-> Len(text)]

f_hello == MkFrame(Types.HANDSHAKE, d_hello)
f_again == MkFrame(Types.HANDSHAKE, d_again)
f_request == MkFrame(Types.FRAME, d_request)
f_nocmd == MkFrame(Types.FRAME, d_nocmd)
f_ping == MkFrame(Types.PING, d_ping)
f_pong == MkFrame(Types.PONG, d_ping)
f_close == MkFrame(Types.CLOSE, d_empty)
f_garbage == [type |-> Types.FRAME, data |-> JUndefined, text |-> <<"{">>, size |-> 1]

\* the bytes of a frame: its type, the payload length it declares, its payload
ClientBytes(f) == writeInt32LE(f.type) \o writeInt32LE(f.size) \o Utf8(f.text)

HandshakeFrames == {MkFrame(Types.HANDSHAKE, d) : d \in HandshakeDocs}

ReaderFrames == {f_hello, f_request, f_ping, f_pong, f_close}

ReaderStreams == {<<f>> : f \in ReaderFrames} \cup {<<f, g>> : f \in ReaderFrames, g \in ReaderFrames}

SessionStreams ==
    {<<h>> : h \in HandshakeFrames}
    \cup {<<h, f>> : h \in HandshakeFrames,
                     f \in {f_again, f_request, f_nocmd, f_ping, f_close, f_garbage}}
    \cup {<<f, h>> : f \in {f_request, f_ping}, h \in HandshakeFrames}

IpcDocs == HandshakeDocs \cup {d_again, d_request, d_nocmd, d_ping, d_empty}

JsonText == [d \in IpcDocs |-> Utf8(JSONstringify(d))]

\* JSON.parse of a payload: the value whose text it is, or a syntax error
JSONparse(bytes) ==
    IF \E d \in IpcDocs : JsonText[d] = bytes
    THEN [ok |-> TRUE, data |-> CHOOSE d \in IpcDocs : JsonText[d] = bytes]
    ELSE [ok |-> FALSE, data |-> JUndefined]

(***************************************************************************)
(* The socket of one native connection and the listeners on it.            *)
(***************************************************************************)
\* the socket handed to onConnection, with its "readable" and once-"handshake"
\* listeners registered (lines 197-215)
NewSocket ==
    [buf |-> <<>>, destroyed |-> FALSE, ended |-> FALSE, closeEmitted |-> FALSE,
     onceHandshake |-> TRUE, handshook |-> FALSE, requestListener |-> FALSE,
     closeListener |-> FALSE, errorListener |-> FALSE, registrations |-> 0,
     clientId |-> JUndefined, out |-> <<>>, emitted |-> <<>>, up |-> <<>>]

destroy(c) == [c EXCEPT !.destroyed = TRUE]

\* socket.write: nothing leaves a socket that was ended or destroyed
write(c, bytes) ==
    IF c.destroyed \/ c.ended THEN c ELSE [c EXCEPT !.out = Append(@, bytes)]

\* socket.end(bytes); <<>> for end()
end(c, bytes) ==
    IF c.destroyed \/ c.ended THEN c
    ELSE [c EXCEPT !.out = IF bytes = <<>> THEN @ ELSE Append(@, bytes), !.ended = TRUE]

emit(c, event, data) == [c EXCEPT !.emitted = Append(@, [event |-> event, data |-> data])]

Returned(c) == [c |-> c, threw |-> <<>>]
Threw(c, message) == [c |-> c, threw |-> message]

\* e.message of the TypeError of reading a property of null
msg_read_v == <<"C", "a", "n", "n", "o", "t", " ", "r", "e", "a", "d", " ", "p", "r", "o", "p", "e", "r", "t", "i", "e", "s", " ", "o", "f", " ", "n", "u", "l", "l", " ", "(", "r", "e", "a", "d", "i", "n", "g", " ", "'", "v", "'", ")">>
msg_read_args == <<"C", "a", "n", "n", "o", "t", " ", "r", "e", "a", "d", " ", "p", "r", "o", "p", "e", "r", "t", "i", "e", "s", " ", "o", "f", " ", "n", "u", "l", "l", " ", "(", "r", "e", "a", "d", "i", "n", "g", " ", "'", "a", "r", "g", "s", "'", ")">>

\* socket.close(code, message) (lines 224-227)
close(c, code, message) == destroy(end(c, encode(Types.CLOSE, CloseDoc(code, message))))

\* `clientId === ""` (line 235)
IsEmptyString(x) == x = JStr(<<>>)

\* the "handshake" listener (lines 215-256)
onHandshake(c, params) ==
    IF c.handshook THEN Returned(c)
    ELSE LET c1 == [c EXCEPT !.handshook = TRUE]
         IN  IF params.t \in {"null", "undefined"} THEN Threw(c1, msg_read_v)
             ELSE LET ver == parseInt(Coalesce(Member(params, k_v), JStr(<<"1">>)))
                      clientId == Coalesce(Member(params, k_client_id), JStr(<<>>))
                  IN  IF ver # Number(1)
                      THEN Returned(close(c1, ErrorCodes.INVALID_VERSION, <<>>))
                      ELSE IF IsEmptyString(clientId)
                      THEN Returned(close(c1, ErrorCodes.INVALID_CLIENTID, <<>>))
                      ELSE Returned([c1 EXCEPT
                               !.errorListener = TRUE,
                               !.closeListener = TRUE,
                               !.requestListener = TRUE,
                               !.registrations = @ + 1,
                               !.clientId = clientId,
                               !.up = Append(@, [h |-> "connection", clientId |-> clientId,
                                                 msg |-> JUndefined])])

\* IPCServer.onMessage (lines 259-267)
onMessage(c, msg) ==
    IF msg.t \in {"null", "undefined"} THEN Threw(c, msg_read_args)
    ELSE IF Falsy(Member(msg, k_args)) \/ Falsy(Member(msg, k_cmd)) THEN Returned(c)
    ELSE Returned([c EXCEPT !.up = Append(@, [h |-> "message", clientId |-> c.clientId,
                                                msg |-> msg])])

\* a "handshake" listener that stays registered and has no handshook test
HandshakeEveryTime(c, data) == onHandshake([c EXCEPT !.handshook = FALSE], data)

\* socket.emit("handshake", data): the listener was registered with once
EmitHandshake(c, data) ==
    IF c.onceHandshake THEN onHandshake([c EXCEPT !.onceHandshake = FALSE], data)
    ELSE Returned(c)

\* socket.emit("request", data)
EmitRequest(c, data) ==
    IF c.requestListener THEN onMessage(c, data) ELSE Returned(c)

\* a header put back without its bytes
DropHeader(header, rest) == rest

\* socket.unshift(header) (lines 77, 83)
unshift(header, rest) == header \o rest

\* processSocketReadable (lines 60-122).  socket.read hands out buffered
\* bytes of a destroyed socket too, and read(0) hands out nothing.
RECURSIVE processSocketReadable(_)
processSocketReadable(c) ==
    IF Len(c.buf) < 8 THEN Returned(c)
    ELSE
    LET header == SubSeq(c.buf, 1, 8)
        rest == SubSeq(c.buf, 9, Len(c.buf))
        type == readInt32LE(header, 0)
        dataSize == readInt32LE(header, 4)
    IN  IF dataSize < 0 \/ dataSize > MAX_IPC_PAYLOAD
        THEN Returned(destroy([c EXCEPT !.buf = rest]))
        ELSE IF Len(rest) < dataSize \/ dataSize = 0
        THEN Returned([c EXCEPT !.buf = unshift(header, rest)])
        ELSE
        LET bodyBuffer == SubSeq(rest, 1, dataSize)
            c1 == [c EXCEPT !.buf = SubSeq(rest, dataSize + 1, Len(rest))]
            parsed == JSONparse(bodyBuffer)
            data == parsed.data
            heard == IF type = Types.HANDSHAKE THEN EmitHandshake(emit(c1, "handshake", data), data)
                     ELSE EmitRequest(emit(c1, "request", data), data)
        IN  IF type \notin {Types.HANDSHAKE, Types.FRAME, Types.CLOSE, Types.PING, Types.PONG}
            THEN Returned(destroy(c1))
            ELSE IF ~parsed.ok THEN processSocketReadable(c1)
            ELSE IF type = Types.PING
            THEN processSocketReadable(write(emit(c1, "ping", data), encode(Types.PONG, data)))
            ELSE IF type = Types.PONG
            THEN processSocketReadable(emit(c1, "pong", data))
            ELSE IF type = Types.CLOSE
            THEN Returned(destroy(end(c1, <<>>)))
            ELSE IF heard.threw # <<>> THEN heard
            ELSE processSocketReadable(heard.c)

\* the "readable" listener (lines 197-211)
onReadable(c) ==
    LET r == processSocketReadable(c)
    IN  IF r.threw = <<>> THEN r.c
        ELSE destroy(end(r.c, encode(Types.CLOSE,
                                     CloseDoc(CloseCodes.CLOSE_UNSUPPORTED, r.threw))))

\* the client's frames, their bytes still to come, and what the delivery
\* looked like so far
Stream(frames) ==
    LET bytes == [i \in 1..Len(frames) |-> ClientBytes(frames[i])]
        all == Join(bytes, <<>>)
    IN  [frames |-> frames,
         ends |-> [i \in 1..Len(frames) |-> Len(Join(SubSeq(bytes, 1, i), <<>>))],
         all |-> all, wire |-> all, pos |-> 0, fin |-> FALSE,
         splitHeader |-> FALSE, splitPayload |-> FALSE, joined |-> FALSE]

(***************************************************************************)
(* unnamed/part_000: the WebSocket transport.                              *)
(***************************************************************************)
\* String.prototype.split(sep) for a separator of one character
RECURSIVE Split(_, _)
Split(s, sep) ==
    LET at == {i \in 1..Len(s) : s[i] = sep}
    IN  IF at = {} THEN <<s>>
        ELSE LET i == CHOOSE i \in at : \A j \in at : i <= j
             IN  <<SubSeq(s, 1, i - 1)>> \o Split(SubSeq(s, i + 1, Len(s)), sep)

\* req.url?.split("?")[1] || ""  (line 88)
UrlQuery(url) ==
    LET parts == Split(url, "?")
    IN  IF Len(parts) >= 2 THEN parts[2] ELSE <<>>

\* the values querystring.parse finds for a key, in order: each piece between
\* "&" is a key up to its first "=" and a value after it
ParamValues(query, key) ==
    LET pieces == SelectSeq(Split(query, "&"), LAMBDA piece : piece # <<>>)
        keyOf(piece) == Split(piece, "=")[1]
        valueOf(piece) == SubSeq(piece, Len(keyOf(piece)) + 2, Len(piece))
        mine == SelectSeq(pieces, LAMBDA piece : keyOf(piece) = key)
    IN  [i \in 1..Len(mine) |-> valueOf(mine[i])]

\* params[key] of querystring.parse: undefined, a string, or an array of
\* strings, which is kept as its length and its text (the strings joined by ",")
Param(query, key) ==
    LET values == ParamValues(query, key)
    IN  IF Len(values) = 0 THEN JUndefined
        ELSE IF Len(values) = 1 THEN JStr(values[1])
        ELSE [t |-> "arr", n |-> Len(values), s |-> Join(values, <<",">>), m |-> <<>>]

k_encoding == <<"e", "n", "c", "o", "d", "i", "n", "g">>
s_json == <<"j", "s", "o", "n">>

\* the socket handed to WSServer.onConnection
NewWebSocket ==
    [phase |-> "new", clientId |-> JUndefined, encoding |-> JUndefined,
     errorListener |-> FALSE, closeListener |-> FALSE, messageListener |-> FALSE,
     url |-> <<>>, up |-> <<>>]

\* WSServer.onConnection (lines 87-133)
wsOnConnection(socket, url) ==
    LET params == UrlQuery(url)
        ver == parseInt(Coalesce(Param(params, k_v), JStr(<<"1">>)))
        encoding == Coalesce(Param(params, k_encoding), JStr(s_json))
        clientId == Coalesce(Param(params, k_client_id), JStr(<<>>))
        asked == [socket EXCEPT !.url = url]
    IN  IF encoding # JStr(s_json) THEN [asked EXCEPT !.phase = "closing"]
        ELSE IF ver # Number(1) THEN [asked EXCEPT !.phase = "closing"]
        ELSE [asked EXCEPT
                 !.phase = "open",
                 !.clientId = clientId,
                 !.encoding = encoding,
                 !.errorListener = TRUE,
                 !.closeListener = TRUE,
                 !.messageListener = TRUE,
                 !.up = Append(@, [h |-> "connection", clientId |-> clientId,
                                   msg |-> JUndefined])]

\* the "message" listener and WSServer.onMessage (lines 117-123, 135-142)
wsOnMessage(socket, bytes) ==
    LET parsed == JSONparse(bytes)
    IN  IF ~socket.messageListener \/ ~parsed.ok THEN socket
        ELSE [socket EXCEPT !.up = Append(@, [h |-> "message", clientId |-> socket.clientId,
                                              msg |-> parsed.data])]

\* the "close" listener (lines 112-115)
wsOnClose(socket) ==
    IF socket.closeListener
    THEN [socket EXCEPT !.up = Append(@, [h |-> "close", clientId |-> socket.clientId,
                                            msg |-> JUndefined])]
    ELSE socket

(***************************************************************************)
(* unnamed/part_001: the choice of the socket path at startup.  A path of   *)
(* the host is "absent" (no such file), "stale" (a socket file nobody      *)
(* listens on), "stuck" (such a file that this process may not remove),    *)
(* "live" (another server listens on it), "denied" (connecting fails with  *)
(* another error), "ours" (the socket file this server made by listening)  *)
(* or "rivals" (the socket file a second instance of this server made).    *)
(***************************************************************************)
\* line 125: `i < 10`
PROBES == 10

PathStates == {"absent", "stale", "stuck", "live", "denied"}

\* createConnection(path) (line 128): the event the probe socket gets
ProbeEvent(state) ==
    CASE state = "live" -> "connect"
      [] state = "absent" -> "ENOENT"
      [] state \in {"stale", "stuck"} -> "ECONNREFUSED"
      [] OTHER -> "EACCES"

\* a probe for which only an accepted connection means the path is taken
ConnectedOnlyOnConnect(event) == event = "connect"

\* lines 129-144: the value the probe's promise resolves with
connected(event) == event \notin {"ECONNREFUSED", "ENOENT"}

\* lines 134-139: unlinkSync(path) inside try/catch, not on win32
unlinkSync(state) ==
    IF CurrentPlatform # "win32" /\ state \notin {"stuck", "denied"} THEN "absent" ELSE state

\* server.listen(path) (line 181) binds a path that does not exist yet
Bindable(state) == state = "absent"

\* createConnection(path) when the path may hold the socket file of an instance
\* of this server
InstanceProbeEvent(state) ==
    IF state \in {"ours", "rivals"} THEN "connect" ELSE ProbeEvent(state)

\* start() has been called and getAvailableSocket is before its first probe
NewBoot == [pc |-> "probe", i |-> 0, path |-> -1, probed |-> <<>>, error |-> "none"]

(***************************************************************************)
(* The engine as a state machine.                                          *)
(***************************************************************************)
VARIABLES
    detectionMap,   \* ProcessServer.detectionMap
    timestamps,     \* ProcessServer.timestamps
    names,          \* ProcessServer.names
    pids,           \* ProcessServer.pids
    cache,          \* ProcessServer.cache
    isScanning,     \* ProcessServer.isScanning
    lastScanTime,   \* ProcessServer.lastScanTime
    now,            \* Date.now()
    initPc,         \* where init() stands: "scan", "await", "done"
    nextFire,       \* when the setInterval callback is next due (0: not set)
    inflight,       \* scans suspended in `await getProcesses()`
    calls,          \* history: calls of scan() made, and those dropped
    obs,            \* history: what the most recent scan body saw and did
    streak,         \* history: id -> its latest detection streak: whether it is
                    \* on, the clock of the scan that began it, the pid last seen
    kind,           \* history: id -> "set" or "clear", the last event emitted
    failed,         \* history: the scans ended by an exception, and whether the
                    \* scan that ended last is one of them and where it threw
    conn,           \* the socket of the native connection and its listeners
    net,            \* the bytes the client of that connection has still to deliver
    peer,           \* the socket of a second native connection
    ws,             \* the socket of a WebSocket connection
    paths,          \* the host: the state of each indexed socket path
    boot,           \* IPCServer.start(): where it stands, the index of its loop,
                    \* the path it chose, and history: the events of its probes
    rival           \* the same of a second instance of the server on this host

engineVars == <<detectionMap, timestamps, names, pids, cache, isScanning,
                lastScanTime, now, initPc, nextFire, inflight, calls, obs,
                streak, kind, failed>>

ipcVars == <<conn, net, peer>>

\* the state of the transports, and the state outside the native transport
startVars == <<paths, boot, rival>>
transportVars == <<ipcVars, ws, startVars>>
notIpcVars == <<engineVars, ws, startVars>>

SCAN_INTERVAL == 5000
MIN_SCAN_INTERVAL == 1000

\* the clock when the engine is constructed, the step of the clock, its last value
InitialClock == 1000
TickMs == 5000
MaxClock == 16000
\* calls of scan() in one behaviour
MaxCalls == 3

NoObs ==
    [scans |-> 0, procs |-> <<>>, same |-> FALSE, events |-> <<>>,
     prevEvents |-> <<>>, detected |-> <<>>, hits |-> {}, fresh |-> {},
     seen |-> {}, swept |-> FALSE, cacheBefore |-> EmptyMap,
     tsBefore |-> EmptyMap, streakBefore |-> EmptyMap, kindBefore |-> EmptyMap,
     at |-> 0]

\* the state when init() has loaded the database and built the index (line 84)
EngineInit(rawDBs) ==
    /\ \E raw \in rawDBs : detectionMap = BuildDetectionMap(transformObject(raw))
    /\ timestamps = EmptyMap
    /\ names = EmptyMap
    /\ pids = EmptyMap
    /\ cache = EmptyMap
    /\ isScanning = FALSE
    /\ lastScanTime = 0
    /\ now = InitialClock
    /\ initPc = "scan"
    /\ nextFire = 0
    /\ inflight = 0
    /\ calls = [made |-> 0, dropped |-> 0]
    /\ obs = NoObs
    /\ streak = EmptyMap
    /\ kind = EmptyMap
    /\ failed = [n |-> 0, last |-> FALSE, where |-> "none"]

\* a scan() that starts whatever the flag says
ScanGuardOpen(flag) == FALSE

\* line 127: `if (this.isScanning) return`
ScanGuard(flag) == flag

\* init() resumes after `await this.scan()`: setInterval (lines 88-93)
InitResumes ==
    /\ initPc' = "done"
    /\ nextFire' = now + SCAN_INTERVAL

\* lines 127-135: scan() up to its suspension in `await getProcesses()`
ScanEnter ==
    /\ calls.made < MaxCalls
    /\ IF ScanGuard(isScanning)
       THEN /\ calls' = [made |-> calls.made + 1, dropped |-> calls.dropped + 1]
            /\ UNCHANGED <<isScanning, lastScanTime, inflight, failed>>
       ELSE /\ calls' = [calls EXCEPT !.made = calls.made + 1]
            /\ isScanning' = TRUE
            /\ lastScanTime' = now
            /\ inflight' = inflight + 1
            /\ failed' = [failed EXCEPT !.last = FALSE]
    /\ UNCHANGED <<detectionMap, timestamps, names, pids, cache, now, obs, streak, kind,
                   transportVars>>

\* line 86: init() calls scan(); a dropped call returns at once and init() goes on
InitScan ==
    /\ initPc = "scan"
    /\ ScanEnter
    /\ IF ScanGuard(isScanning)
       THEN InitResumes
       ELSE initPc' = "await" /\ UNCHANGED nextFire

\* scan() called by another caller
DirectScan ==
    /\ ScanEnter
    /\ UNCHANGED <<initPc, nextFire>>

\* lines 88-93: the setInterval callback; the timer is re-armed from the moment
\* its callback runs
TimerFire ==
    /\ initPc = "done"
    /\ now >= nextFire
    /\ nextFire' = now + SCAN_INTERVAL
    /\ UNCHANGED initPc
    /\ IF now - lastScanTime >= MIN_SCAN_INTERVAL
       THEN ScanEnter
       ELSE UNCHANGED <<detectionMap, timestamps, names, pids, cache, isScanning,
                        lastScanTime, now, inflight, calls, obs, streak, kind,
                        failed, transportVars>>

\* the events applied to the last-event history
RECURSIVE KindAfter(_, _)
KindAfter(k, events) ==
    IF Len(events) = 0 THEN k
    ELSE KindAfter(Put(k, Head(events).socketId,
                       IF Head(events).null THEN "clear" ELSE "set"),
                   Tail(events))

\* the detection streaks after a scan at clock nowv that detected the games found
StreakAfter(sk, found, nowv) ==
    LET ids == {found[i].id : i \in 1..Len(found)}
        pidOf(id) == found[CHOOSE i \in 1..Len(found) : found[i].id = id].pid
    IN  [id \in (DOMAIN sk) \cup ids |->
            IF id \in ids
            THEN [on |-> TRUE,
                  since |-> IF id \in DOMAIN sk /\ sk[id].on THEN sk[id].since ELSE nowv,
                  pid |-> pidOf(id)]
            ELSE [sk[id] EXCEPT !.on = FALSE]]

\* a scan whose exception leaves the flag as it is
FinallySkipped(flag) == flag

\* line 227: `this.isScanning = false`
Finally(flag) == FALSE

\* the scan suspended in getProcesses ends: `finally` (line 227), and init()
\* resumes when the scan was its own
ScanLeaves ==
    /\ isScanning' = Finally(isScanning)
    /\ inflight' = inflight - 1
    /\ IF initPc = "await" THEN InitResumes ELSE UNCHANGED <<initPc, nextFire>>

\* getProcesses() resolves with a process list: lines 136-229
GetProcessesReturns(lists, tables) ==
    /\ inflight > 0
    /\ \E processes \in lists :
        LET r == ScanBody(processes, cache, timestamps, names, pids, detectionMap,
                          now, tables)
        IN  /\ cache' = r.cache
            /\ timestamps' = r.timestamps
            /\ names' = r.names
            /\ pids' = r.pids
            /\ obs' = [scans |-> obs.scans + 1, procs |-> processes,
                       same |-> (obs.scans > 0 /\ processes = obs.procs),
                       events |-> r.events, prevEvents |-> obs.events,
                       detected |-> r.detected, hits |-> r.hits, fresh |-> r.fresh,
                       seen |-> r.seen, swept |-> r.swept, cacheBefore |-> cache,
                       tsBefore |-> timestamps, streakBefore |-> streak,
                       kindBefore |-> kind, at |-> now]
            /\ streak' = StreakAfter(streak, r.detected, now)
            /\ kind' = KindAfter(kind, r.events)
    /\ ScanLeaves
    /\ UNCHANGED <<detectionMap, lastScanTime, now, calls, failed, transportVars>>

\* getProcesses() rejects: catch (line 225) and finally
GetProcessesThrows ==
    /\ inflight > 0
    /\ ScanLeaves
    /\ failed' = [n |-> failed.n + 1, last |-> TRUE, where |-> "listing"]
    /\ UNCHANGED <<detectionMap, timestamps, names, pids, cache, lastScanTime, now,
                   calls, obs, streak, kind, transportVars>>

\* getProcesses() resolves and the loop over the list throws at entry j (for
\* one, an entry without a path at line 139): the entries before it were
\* scanned, then catch and finally
MatchingThrows(lists, tables) ==
    /\ inflight > 0
    /\ \E processes \in lists : \E j \in 1..Len(processes) :
        LET env == [ts |-> timestamps, now |-> now, dmap |-> detectionMap,
                    view |-> tables.view, match |-> tables.match]
            st  == ScanProcesses([cache |-> cache, detected |-> <<>>, seen |-> {},
                                  hits |-> {}, fresh |-> {}],
                                 SubSeq(processes, 1, j - 1), 1, env)
        IN  cache' = st.cache
    /\ ScanLeaves
    /\ failed' = [n |-> failed.n + 1, last |-> TRUE, where |-> "matching"]
    /\ UNCHANGED <<detectionMap, timestamps, names, pids, lastScanTime, now,
                   calls, obs, streak, kind, transportVars>>

\* getProcesses() resolves, the list is scanned (lines 136-200) and
\* handlers.message throws on its n-th call inside handleScanResults (line
\* 202): the cache maintenance is not reached, then catch and finally
HandlerThrows(lists, tables) ==
    /\ inflight > 0
    /\ \E processes \in lists :
        LET env == [ts |-> timestamps, now |-> now, dmap |-> detectionMap,
                    view |-> tables.view, match |-> tables.match]
            st  == ScanProcesses([cache |-> cache, detected |-> <<>>, seen |-> {},
                                  hits |-> {}, fresh |-> {}], processes, 1, env)
            es0 == [timestamps |-> timestamps, names |-> names, pids |-> pids,
                    events |-> <<>>]
            all == Len(handleScanResults(es0, st.detected).events)
        IN  \E n \in 1..all :
            LET es == handleScanResultsThrowing(es0, st.detected, n)
            IN  /\ cache' = st.cache
                /\ timestamps' = es.timestamps
                /\ names' = es.names
                /\ pids' = es.pids
                /\ streak' = StreakAfter(streak, st.detected, now)
                /\ kind' = KindAfter(kind, es.events)
    /\ ScanLeaves
    /\ failed' = [n |-> failed.n + 1, last |-> TRUE, where |-> "handler"]
    /\ UNCHANGED <<detectionMap, lastScanTime, now, calls, obs, transportVars>>

\* time passes
Tick ==
    /\ now + TickMs <= MaxClock
    /\ now' = now + TickMs
    /\ UNCHANGED <<detectionMap, timestamps, names, pids, cache, isScanning,
                   lastScanTime, initPc, nextFire, inflight, calls, obs, streak, kind,
                   failed, transportVars>>

vars == <<engineVars, transportVars>>

\* no second instance runs on the host
NoRival == [NewBoot EXCEPT !.pc = "off"]

\* start() has resolved: the server listens on the path of index 0
Started ==
    /\ paths = [i \in 0..(PROBES - 1) |-> IF i = 0 THEN "ours" ELSE "absent"]
    /\ boot = [NewBoot EXCEPT !.pc = "listening", !.path = 0, !.probed = <<[i |-> 0, event |-> "ENOENT"]>>]
    /\ rival = NoRival

\* no client has sent anything on the native transport
NoTraffic ==
    /\ conn = NewSocket
    /\ net = Stream(<<>>)
    /\ peer = NewSocket
    /\ ws = NewWebSocket
    /\ Started

Init == EngineInit(RawDBs) /\ NoTraffic

Next ==
    \/ InitScan
    \/ TimerFire
    \/ GetProcessesReturns(ProcessLists, EngineTables)
    \/ GetProcessesThrows
    \/ Tick

Spec == Init /\ [][Next]_vars

\* the same engine with a second caller of scan() and short process lists
CallerLists == {<<>>, <<p_game>>, <<p_game64, p_game>>}

NextCalls ==
    \/ InitScan
    \/ DirectScan
    \/ TimerFire
    \/ GetProcessesReturns(CallerLists, EngineTables)
    \/ GetProcessesThrows
    \/ Tick

SpecCalls == Init /\ [][NextCalls]_vars

(***************************************************************************)
(* Properties of the engine.                                               *)
(***************************************************************************)
EventsOf(events) == {events[i] : i \in 1..Len(events)}

SetEvents(events) == {e \in EventsOf(events) : ~e.null}

ClearEvents(events) == {e \in EventsOf(events) : e.null}

DetectedIds == {obs.detected[i].id : i \in 1..Len(obs.detected)}

\* C1: at most one scan is in progress, and a call of scan() made while a scan
\* is in progress reads no process list, changes neither the Scan Cache nor the
\* Engine State and emits nothing.
C1_OneScanAtATime ==
    /\ [](inflight <= 1)
    /\ [][(calls'.made = calls.made + 1 /\ inflight > 0) =>
            /\ inflight' = inflight
            /\ UNCHANGED <<cache, timestamps, names, pids, obs, kind>>]_vars

C1_Witness == calls.dropped > 0 /\ inflight = 1 /\ DOMAIN cache # {}

\* C2: a completed scan that observes the same process list as the completed
\* scan before it detects the same games with the same start timestamps and
\* emits no clear-activity event.
C2_Idempotent ==
    obs.same =>
        /\ {<<e.socketId, e.start>> : e \in SetEvents(obs.events)}
             = {<<e.socketId, e.start>> : e \in SetEvents(obs.prevEvents)}
        /\ ClearEvents(obs.events) = {}

\* C3: a scan removes every id that was active when it started and that it did
\* not detect from timestamps, names and pids, and emits one clear event for
\* it, addressed to the id, with the pid of the latest scan that detected it; a
\* detected id gets a set event with its id and no clear.
C3_ClearOnLoss ==
    obs.scans > 0 =>
        /\ \A id \in (DOMAIN obs.tsBefore) \ DetectedIds :
            /\ id \notin DOMAIN timestamps
            /\ id \notin DOMAIN names
            /\ id \notin DOMAIN pids
            /\ id \in DOMAIN obs.streakBefore
            /\ Cardinality({i \in 1..Len(obs.events) :
                    obs.events[i].null /\ obs.events[i].socketId = id}) = 1
            /\ \A e \in ClearEvents(obs.events) :
                    e.socketId = id => e.pid = obs.streakBefore[id].pid
        /\ \A id \in DetectedIds :
            /\ \E e \in SetEvents(obs.events) :
                    e.socketId = id /\ e.application_id = id
            /\ \A e \in ClearEvents(obs.events) : e.socketId # id

C3_Witness ==
    /\ ClearEvents(obs.events) # {}
    /\ SetEvents(obs.events) # {}
    /\ \E e \in ClearEvents(obs.events) : e.pid = 52

\* C4: every set event carries the clock of the scan that began the game's
\* current detection streak, in every scan of the streak, and the first set
\* event after a clear carries a new timestamp, not that of the streak before.
C4_StreakTimestamp ==
    \A e \in SetEvents(obs.events) :
        /\ e.socketId \in DOMAIN streak
        /\ e.start = streak[e.socketId].since
        /\ (e.socketId \in DOMAIN obs.streakBefore /\ ~obs.streakBefore[e.socketId].on)
              => /\ e.start = obs.at
                 /\ e.start # obs.streakBefore[e.socketId].since

\* a game is detected again from the cache after its streak had ended, and
\* another game is in a streak that began in an earlier scan
C4_Witness ==
    \E e \in SetEvents(obs.events), f \in SetEvents(obs.events) :
        /\ e.socketId \in DOMAIN obs.streakBefore
        /\ ~obs.streakBefore[e.socketId].on
        /\ obs.fresh = {}
        /\ f.start < obs.at

\* C5: when the cache holds more than twice the signatures seen in a scan, the
\* sweep leaves only signatures seen in that scan, so the cache is no larger
\* than the scan's process list.
C5_SweepBounds ==
    obs.swept =>
        /\ DOMAIN cache \subseteq obs.seen
        /\ Cardinality(DOMAIN cache) <= Len(obs.procs)

\* the events of one scan, read in order from the last event of each id
RECURSIVE InOrder(_, _)
InOrder(k, events) ==
    IF Len(events) = 0 THEN TRUE
    ELSE LET e == Head(events)
         IN  /\ e.null => (e.socketId \in DOMAIN k /\ k[e.socketId] = "set")
             /\ InOrder(Put(k, e.socketId, IF e.null THEN "clear" ELSE "set"),
                        Tail(events))

\* C6: the events of one id are sets followed by one clear, again and again: a
\* clear is never the first event of an id, never follows a clear, and is
\* emitted only for an id that was active.
C6_EventOrder ==
    /\ InOrder(obs.kindBefore, obs.events)
    /\ \A e \in ClearEvents(obs.events) : e.socketId \in DOMAIN obs.tsBefore

\* a clear event for an id whose detection streak began after the first scan
C6_Witness ==
    \E e \in ClearEvents(obs.events) :
        /\ e.socketId \in DOMAIN obs.streakBefore
        /\ obs.streakBefore[e.socketId].since > InitialClock

(***************************************************************************)
(* Strict matching: one scan of a fresh engine over databases with strict  *)
(* games and processes whose filenames vary in case, bitness, extension,   *)
(* directory and arguments.                                                *)
(***************************************************************************)
g_strict_exe == RawGame("5", "Strict Exe", <<RawExec(<<">","G","a","m","e",".","e","x","e">>, "win32", <<>>)>>)
g_strict_two == RawGame("6", "Strict Two",
                    <<RawExec(<<">","g","a","m","e">>, "linux", <<>>),
                      RawExec(<<">","R","U","N",".","e","x","e">>, "", <<"-","Y">>)>>)

MatchRawDBs == {<<g_strict_exe, g_loose>>, <<g_loose, g_strict_exe>>,
                <<g_strict_two>>, <<g_strict_two, g_strict_exe>>}

m_exact   == Proc(42, <<"C",":","\\","G","a","m","e","s","\\","G","a","m","e",".","E","X","E">>, <<>>, <<"C",":","\\","G","a","m","e","s">>)
m_bits    == Proc(43, <<"c",":","/","g","a","m","e","s","/","g","a","m","e","6","4",".","e","x","e">>, <<>>, <<>>)
m_noext   == Proc(44, <<"/","o","p","t","/","g","a","m","e">>, <<>>, <<"/","o","p","t">>)
m_lib     == Proc(45, <<"/","u","s","r","/","l","i","b","/","g","a","m","e",".","e","x","e">>, <<>>, <<>>)
m_args    == Proc(46, <<"/","o","p","t","/","g","a","m","e","/","r","u","n",".","e","x","e">>, <<<<"-","v">>,<<"-","y">>>>, <<>>)
m_inpath  == Proc(47, <<"/","o","p","t","/","g","a","m","e",".","e","x","e","/","g","a","m","e","_","6","4",".","e","x","e">>, <<>>, <<>>)
m_noargs  == Proc(48, <<"/","o","p","t","/","r","u","n",".","e","x","e">>, <<>>, <<>>)
m_pid1    == Proc(1, <<"/","o","p","t","/","g","a","m","e">>, <<>>, <<"/","o","p","t">>)

MatchProcs == {m_exact, m_bits, m_noext, m_lib, m_args, m_inpath, m_noargs, m_pid1}

MatchLists == {<<p>> : p \in MatchProcs} \cup {<<p, q>> : p \in MatchProcs, q \in MatchProcs}

MatchTables == Tabulate(MatchRawDBs, MatchProcs)

InitMatch == EngineInit(MatchRawDBs) /\ NoTraffic

NextMatch ==
    \/ InitScan
    \/ GetProcessesReturns(MatchLists, MatchTables)

SpecMatch == InitMatch /\ [][NextMatch]_vars

\* the games of the Detection Index whose executable entries are all strict
StrictGames ==
    {g \in UNION {{detectionMap[k][i] : i \in 1..Len(detectionMap[k])} : k \in DOMAIN detectionMap} :
        \A k \in 1..Len(g.e) : g.e[k].s = 1}

\* the lowercased filename (last path segment) of process idx of the latest scan
FilenameOf(idx) == LastSegment(NormalizePath(obs.procs[idx].path))

\* an entry of g has the filename of process idx as its stored name, and the
\* arguments of the process satisfy that entry's requirement
NamesProcess(g, idx) ==
    \E k \in 1..Len(g.e) :
        g.e[k].n = FilenameOf(idx) /\ ArgsSatisfied(g.e[k], obs.procs[idx].args)

\* no process is detected as a strict game unless its filename is a stored name
StrictNeverOtherwise ==
    \A g \in StrictGames : \A idx \in 1..Len(obs.procs) :
        <<idx, g.i>> \in obs.hits =>
            \E k \in 1..Len(g.e) : g.e[k].n = FilenameOf(idx)

\* process idx of the latest scan passes the exclusion rules and has a filename
Examined(idx) ==
    /\ isValidProcess(obs.procs[idx].pid, NormalizePath(obs.procs[idx].path))
    /\ FilenameOf(idx) # <<>>

\* the latest scan detected game g for the process of entry idx
DetectedAs(g, idx) ==
    \E j \in 1..Len(obs.procs) : obs.procs[j] = obs.procs[idx] /\ <<j, g.i>> \in obs.hits

\* C7: a process is never detected as a strict game unless its filename is a
\* stored name, and a process that the scan examines, whose filename is a stored
\* name and whose arguments satisfy the entry, is detected as the game.
C7_StrictDetected ==
    obs.scans > 0 =>
        /\ StrictNeverOtherwise
        /\ \A g \in StrictGames : \A idx \in 1..Len(obs.procs) :
                (Examined(idx) /\ NamesProcess(g, idx)) => DetectedAs(g, idx)

\* what holds of C7: its first half, and its second half for the processes the
\* scan matches afresh, which are those it examines and does not find in the
\* cache.
C7_StrictMatching ==
    obs.scans > 0 =>
        /\ StrictNeverOtherwise
        /\ \A g \in StrictGames : \A idx \in obs.fresh :
                NamesProcess(g, idx) => <<idx, g.i>> \in obs.hits
        /\ \A idx \in 1..Len(obs.procs) :
                (/\ Examined(idx)
                 /\ EngineKey(obs.procs[idx]) \notin DOMAIN obs.cacheBefore
                 /\ \A j \in 1..(idx - 1) : EngineKey(obs.procs[j]) # EngineKey(obs.procs[idx]))
                    => idx \in obs.fresh

\* one scan in which a strict game is reached through a bitness-stripped key
\* by a process with another filename and a path holding the stored name, and
\* is not detected for it, while another process is detected as that game
C7_Witness ==
    \E g \in StrictGames : \E idx \in 1..Len(obs.procs), jdx \in 1..Len(obs.procs) :
        /\ \E k \in 1..Len(g.e) :
                /\ g.e[k].n # FilenameOf(idx)
                /\ g.e[k].n = stripBitness(FilenameOf(idx))
                /\ Includes(NormalizePath(obs.procs[idx].path), <<"/">> \o g.e[k].n)
        /\ <<idx, g.i>> \notin obs.hits
        /\ NamesProcess(g, jdx)
        /\ <<jdx, g.i>> \in obs.hits

(***************************************************************************)
(* The native connection as a state machine.                               *)
(***************************************************************************)
\* the length of the short chunks of DeliverSome
ShortChunk == 5

\* the socket's "readable" event once n more bytes of the client have arrived
Deliver(n) ==
    /\ ~conn.destroyed
    /\ n \in 1..Len(net.wire)
    /\ conn' = onReadable([conn EXCEPT !.buf = @ \o SubSeq(net.wire, 1, n)])
    /\ net' = LET to == net.pos + n
                  frames == 1..Len(net.frames)
                  start(i) == IF i = 1 THEN 0 ELSE net.ends[i - 1]
              IN  [net EXCEPT
                      !.wire = SubSeq(@, n + 1, Len(@)),
                      !.pos = to,
                      !.splitHeader = @ \/ \E i \in frames : start(i) < to /\ to < start(i) + 8,
                      !.splitPayload = @ \/ \E i \in frames : start(i) + 8 < to /\ to < net.ends[i],
                      !.joined = @ \/ \E i \in frames : net.pos < net.ends[i] /\ net.ends[i] < to]
    /\ UNCHANGED <<notIpcVars, peer>>

\* a chunk of any length
DeliverAny == \E n \in 1..Len(net.wire) : Deliver(n)

\* a chunk that ends where a frame ends or where the stream ends, or a short one
DeliverSome ==
    \E n \in {k \in 1..Len(net.wire) :
                \/ k = Len(net.wire)
                \/ k = ShortChunk
                \/ \E i \in 1..Len(net.frames) : net.pos + k = net.ends[i]} : Deliver(n)

\* the "close" event of a destroyed socket, heard by the listener of line 242
SocketClosed ==
    /\ conn.destroyed
    /\ ~conn.closeEmitted
    /\ conn' = [conn EXCEPT
                   !.closeEmitted = TRUE,
                   !.up = IF conn.closeListener
                          THEN Append(@, [h |-> "close", clientId |-> conn.clientId,
                                          msg |-> JUndefined])
                          ELSE @]
    /\ UNCHANGED <<notIpcVars, net, peer>>

\* a client that sends one of the streams, over an engine with an empty database
Connected(streams) ==
    /\ EngineInit({<<>>})
    /\ conn = NewSocket
    /\ peer = NewSocket
    /\ ws = NewWebSocket
    /\ Started
    /\ \E frames \in streams : net = Stream(frames)

InitReader == Connected(ReaderStreams)

NextReader ==
    \/ DeliverAny
    \/ SocketClosed

SpecReader == InitReader /\ [][NextReader]_vars

InitSession == Connected(SessionStreams)

NextSession ==
    \/ DeliverSome
    \/ SocketClosed

SpecSession == InitSession /\ [][NextSession]_vars

\* the frames of the client whose bytes have all arrived
Delivered == Cardinality({i \in 1..Len(net.frames) : net.ends[i] <= net.pos})

\* the parameters of the first HANDSHAKE frame of the client
FirstHandshake ==
    LET at == {i \in 1..Len(net.frames) : net.frames[i].type = Types.HANDSHAKE}
    IN  IF at = {} THEN JUndefined
        ELSE net.frames[CHOOSE i \in at : \A j \in at : i <= j].data

\* the server wrote a CLOSE frame whose payload has the code and an empty message
CloseWritten(code) ==
    \E j \in 1..Len(conn.out) : conn.out[j] = encode(Types.CLOSE, CloseDoc(code, <<>>))

Heard(h) == {j \in 1..Len(conn.up) : conn.up[j].h = h}

IsVersion1(v) == v \in {JNum(1), JStr(<<"1">>)}

\* C8: once the listener has handled the first HANDSHAKE frame, and that frame
\* carries a version other than 1, a CLOSE frame with code 4004 has been
\* written, the socket is destroyed, and no connection event and no message
\* event has been passed to the handlers.
C8_VersionRejected ==
    LET v == Member(FirstHandshake, k_v)
    IN  (conn.handshook /\ v.t # "undefined" /\ ~IsVersion1(v)) =>
            /\ CloseWritten(ErrorCodes.INVALID_VERSION)
            /\ conn.destroyed
            /\ Heard("connection") = {}
            /\ Heard("message") = {}

\* C9: once the listener has handled the first HANDSHAKE frame, and that frame
\* has version 1: with an empty or absent client_id a CLOSE frame with code 4000
\* has been written, the socket is destroyed and no connection event has been
\* passed on; with a non-empty client_id the socket's clientId is that client_id
\* and exactly one connection event, carrying it, has been passed on.
C9_ClientIdCheck ==
    LET v == Member(FirstHandshake, k_v)
        id == Member(FirstHandshake, k_client_id)
    IN  (conn.handshook /\ IsVersion1(v)) =>
            IF id.t \in {"undefined", "null"} \/ id = JStr(<<>>)
            THEN /\ CloseWritten(ErrorCodes.INVALID_CLIENTID)
                 /\ conn.destroyed
                 /\ Heard("connection") = {}
            ELSE /\ conn.clientId = id
                 /\ Cardinality(Heard("connection")) = 1
                 /\ \A j \in Heard("connection") : conn.up[j].clientId = id

\* a version 1 handshake with a client id was accepted, and a second HANDSHAKE
\* frame has arrived after it
C9_Witness ==
    /\ conn.handshook
    /\ IsVersion1(Member(FirstHandshake, k_v))
    /\ Member(FirstHandshake, k_client_id) = JStr(<<"a">>)
    /\ Len(net.frames) = 2
    /\ net.frames[1].type = Types.HANDSHAKE
    /\ net.frames[2].type = Types.HANDSHAKE
    /\ Delivered = 2
    /\ conn.clientId = JStr(<<"a">>)
    /\ Cardinality(Heard("connection")) = 1

EventName(type) ==
    CASE type = Types.HANDSHAKE -> "handshake"
      [] type = Types.FRAME -> "request"
      [] type = Types.PING -> "ping"
      [] type = Types.PONG -> "pong"

\* the socket after the first k frames of the client arrived in one chunk
ArrivedWhole(k) ==
    onReadable([NewSocket EXCEPT
                   !.buf = SubSeq(net.all, 1, IF k = 0 THEN 0 ELSE net.ends[k])])

\* C10: however the bytes of valid frames were cut into chunks, the reader has
\* emitted one event for each frame that has wholly arrived (up to a CLOSE
\* frame, which ends the reading), carrying the type and the payload the frame
\* was made from; the events, the frames written back and the events passed to
\* the handlers are those of the same frames arriving in one chunk; and the
\* buffer holds the bytes that arrived after the last whole frame, no more and
\* no fewer.
C10_PartialDelivery ==
    LET k == Delivered
        closes == {i \in 1..k : net.frames[i].type = Types.CLOSE}
        e == IF closes = {} THEN k ELSE (CHOOSE i \in closes : \A j \in closes : i <= j) - 1
        whole == ArrivedWhole(k)
    IN  /\ conn.emitted = [i \in 1..e |-> [event |-> EventName(net.frames[i].type),
                                           data |-> net.frames[i].data]]
        /\ conn.emitted = whole.emitted
        /\ conn.out = whole.out
        /\ SelectSeq(conn.up, LAMBDA u : u.h # "close") = whole.up
        /\ conn.clientId = whole.clientId
        /\ ~conn.destroyed =>
              conn.buf = SubSeq(net.all, (IF k = 0 THEN 0 ELSE net.ends[k]) + 1, net.pos)

\* two frames arrived, cut inside a header and inside a payload, the end of
\* one frame and the start of the next in one chunk, and both were emitted
C10_Witness ==
    /\ net.splitHeader
    /\ net.splitPayload
    /\ net.joined
    /\ Delivered = 2
    /\ Len(conn.emitted) = 2

(***************************************************************************)
(* Protocol violations on the native transport.                            *)
(***************************************************************************)
\* frames that break the protocol: a declared length over the cap, a negative
\* one, a type that is none of 0..4 with a payload, and one without
f_oversize == [type |-> Types.FRAME, data |-> JUndefined, text |-> <<"{", "}">>,
               size |-> MAX_IPC_PAYLOAD + 1]
f_negative == [type |-> Types.FRAME, data |-> JUndefined, text |-> <<"{", "}">>, size |-> -1]
f_badtype == [type |-> 9, data |-> JUndefined, text |-> <<"{", "}">>, size |-> 2]
f_badtype_empty == [type |-> 9, data |-> JUndefined, text |-> <<>>, size |-> 0]

Violators == {f_oversize, f_negative, f_badtype, f_badtype_empty}

ViolationStreams ==
    UNION {{<<v>>, <<v, f_hello>>, <<f_hello, v>>, <<f_hello, v, f_request>>,
            <<f_ping, v, f_ping>>} : v \in Violators}

\* frames the second connection may receive
MaxPeerFrames == 2

\* the "readable" event of the second connection, a whole frame having arrived
PeerReceives ==
    /\ ~peer.destroyed
    /\ Len(peer.emitted) < MaxPeerFrames
    /\ \E f \in {f_hello, f_request, f_ping} :
            peer' = onReadable([peer EXCEPT !.buf = @ \o ClientBytes(f)])
    /\ UNCHANGED <<notIpcVars, conn, net>>

InitViolation == Connected(ViolationStreams)

NextViolation ==
    \/ DeliverAny
    \/ SocketClosed
    \/ PeerReceives

SpecViolation == InitViolation /\ [][NextViolation]_vars

\* the first frame of the client that breaks the protocol (0: none)
FirstViolator ==
    LET at == {i \in 1..Len(net.frames) : net.frames[i] \in Violators}
    IN  IF at = {} THEN 0 ELSE CHOOSE i \in at : \A j \in at : i <= j

\* the bytes that show frame i to break the protocol have arrived: its header
\* when the declared length is out of range, else the frame whole
ViolationArrived(i) ==
    LET f == net.frames[i]
        start == IF i = 1 THEN 0 ELSE net.ends[i - 1]
    IN  IF f.size < 0 \/ f.size > MAX_IPC_PAYLOAD THEN net.pos >= start + 8
        ELSE net.pos >= net.ends[i]

\* the connection is destroyed, and what it emitted, wrote and passed to the
\* handlers is what the frames before frame i account for
FatalAt(i) ==
    /\ conn.destroyed
    /\ conn.emitted = ArrivedWhole(i - 1).emitted
    /\ conn.out = ArrivedWhole(i - 1).out
    /\ SelectSeq(conn.up, LAMBDA u : u.h # "close") = ArrivedWhole(i - 1).up

\* C11: once a frame with a declared length over 5 MiB or below 0, or with a
\* type outside 0..4, has arrived, the connection is destroyed, no event was
\* emitted for that frame and no later frame was processed; and a step of this
\* connection leaves the other connection as it was.
C11_ViolationFatal ==
    /\ [](FirstViolator # 0 /\ ViolationArrived(FirstViolator) => FatalAt(FirstViolator))
    /\ [][conn' # conn => peer' = peer]_vars

(***************************************************************************)
(* The WebSocket connection as a state machine, and the ways a session     *)
(* ends.                                                                   *)
(***************************************************************************)
u_plain == <<"/">>
u_hello == <<"/", "?", "v", "=", "1", "&", "c", "l", "i", "e", "n", "t", "_", "i", "d", "=", "a">>
u_json == <<"/", "?", "v", "=", "1", "&", "e", "n", "c", "o", "d", "i", "n", "g", "=", "j", "s", "o", "n", "&", "c", "l", "i", "e", "n", "t", "_", "i", "d", "=">>
u_v2 == <<"/", "?", "v", "=", "2", "&", "c", "l", "i", "e", "n", "t", "_", "i", "d", "=", "a">>
u_etf == <<"/", "?", "v", "=", "1", "&", "e", "n", "c", "o", "d", "i", "n", "g", "=", "e", "t", "f", "&", "c", "l", "i", "e", "n", "t", "_", "i", "d", "=", "a">>
u_v1x == <<"/", "?", "v", "=", "1", "x", "&", "c", "l", "i", "e", "n", "t", "_", "i", "d", "=", "a">>
u_twice == <<"/", "?", "v", "=", "1", "&", "v", "=", "2", "&", "c", "l", "i", "e", "n", "t", "_", "i", "d", "=", "a">>
u_noenc == <<"/", "?", "e", "n", "c", "o", "d", "i", "n", "g", "=", "&", "v", "=", "1">>
u_nov == <<"/", "?", "v", "=", "&", "c", "l", "i", "e", "n", "t", "_", "i", "d", "=", "a">>

Urls == {u_plain, u_hello, u_json, u_v2, u_etf, u_v1x, u_twice, u_noenc, u_nov}

\* the texts WebSocket clients send
WsMessages == {Utf8(JSONstringify(d_request)), Utf8(JSONstringify(d_nocmd)), Utf8(<<"{">>)}

\* events passed to the handlers of one WebSocket session
MaxWsEvents == 4

\* the "connection" event of the WebSocketServer (lines 63-65)
WsConnects(urls) ==
    /\ ws.phase = "new"
    /\ \E url \in urls : ws' = wsOnConnection(ws, url)
    /\ UNCHANGED <<engineVars, ipcVars, startVars>>

\* the "message" event of an open socket
WsMessage ==
    /\ ws.phase = "open"
    /\ Len(ws.up) < MaxWsEvents
    /\ \E bytes \in WsMessages : ws' = wsOnMessage(ws, bytes)
    /\ UNCHANGED <<engineVars, ipcVars, startVars>>

\* an open socket starts to close: the client closes it, the connection
\* fails, or the server calls socket.close()
WsTeardown ==
    /\ ws.phase = "open"
    /\ ws' = [ws EXCEPT !.phase = "closing"]
    /\ UNCHANGED <<engineVars, ipcVars, startVars>>

\* the "close" event, which a closing socket emits once
WsClosed ==
    /\ ws.phase = "closing"
    /\ ws' = [wsOnClose(ws) EXCEPT !.phase = "closed"]
    /\ UNCHANGED <<engineVars, ipcVars, startVars>>

\* the client of the native connection goes away: what it had not sent is never
\* sent; the socket gets a last "readable" event, and its "end" event, on
\* which a socket that is not half-open ends and is destroyed, only if nothing
\* is left in its buffer
ClientDisconnects ==
    /\ ~conn.destroyed
    /\ ~net.fin
    /\ net' = [net EXCEPT !.fin = TRUE, !.wire = <<>>]
    /\ conn' = LET c == onReadable(conn)
               IN  IF c.buf = <<>> THEN destroy(end(c, <<>>)) ELSE c
    /\ UNCHANGED <<notIpcVars, peer>>

\* an error of a socket that has the listener of line 241: the socket is destroyed
SocketError ==
    /\ conn.errorListener
    /\ ~conn.destroyed
    /\ conn' = destroy(conn)
    /\ UNCHANGED <<notIpcVars, net, peer>>

\* a handler calls socket.close(code), which the accepted handshake defined
ServerCloses ==
    /\ conn.requestListener
    /\ ~conn.destroyed
    /\ conn' = close(conn, CloseCodes.CLOSE_NORMAL, <<>>)
    /\ UNCHANGED <<notIpcVars, net, peer>>

TeardownStreams ==
    {<<f_hello>>, <<f_hello, f_request>>, <<f_hello, f_close>>, <<f_hello, f_ping>>,
     <<MkFrame(Types.HANDSHAKE, HandshakeParams(JNum(2), JStr(<<"a">>)))>>}

InitTeardown == Connected(TeardownStreams)

NextTeardown ==
    \/ DeliverSome
    \/ ClientDisconnects
    \/ SocketError
    \/ ServerCloses
    \/ SocketClosed
    \/ WsConnects({u_hello, u_v2})
    \/ WsMessage
    \/ WsTeardown
    \/ WsClosed

\* a destroyed socket and a closing WebSocket do emit their "close" events
SpecTeardown ==
    /\ InitTeardown
    /\ [][NextTeardown]_vars
    /\ WF_vars(SocketClosed)
    /\ WF_vars(WsClosed)

WsHeard(h) == {j \in 1..Len(ws.up) : ws.up[j].h = h}

\* C12: no session has two close events passed to the handlers; a native
\* session that had its connection event and whose client went away or whose
\* socket was destroyed (by a CLOSE frame, by socket.close(), by an error) gets
\* its close event; and so does a WebSocket session that had its connection
\* event and began to close.
C12_OneClose ==
    /\ [](Cardinality(Heard("close")) <= 1 /\ Cardinality(WsHeard("close")) <= 1)
    /\ (Heard("connection") # {} /\ (net.fin \/ conn.destroyed))
            ~> (Cardinality(Heard("close")) = 1)
    /\ (WsHeard("connection") # {} /\ ws.phase = "closing")
            ~> (Cardinality(WsHeard("close")) = 1)

(***************************************************************************)
(* Admission of WebSocket clients.                                         *)
(***************************************************************************)
InitWs == EngineInit({<<>>}) /\ NoTraffic

NextWs ==
    \/ WsConnects(Urls)
    \/ WsMessage
    \/ WsTeardown
    \/ WsClosed

SpecWs == InitWs /\ [][NextWs]_vars

\* the upgrade request asks for encoding json and version 1, an absent
\* parameter counting as json, respectively 1
AsksJsonV1(url) ==
    LET encoding == ParamValues(UrlQuery(url), k_encoding)
        v == ParamValues(UrlQuery(url), k_v)
    IN  /\ encoding \in {<<>>, <<s_json>>}
        /\ v \in {<<>>, <<<<"1">>>>}

\* C13: once onConnection has handled the upgrade request, a connection event
\* has been passed on if and only if the request asks for json and version 1;
\* otherwise the socket is closing or closed and no event at all has been
\* passed on; an accepted socket's clientId is the client_id parameter, the
\* empty text when there is none.
C13_WsAdmission ==
    LET id == ParamValues(UrlQuery(ws.url), k_client_id)
    IN  ws.phase # "new" =>
            /\ WsHeard("connection") # {} <=> AsksJsonV1(ws.url)
            /\ ~AsksJsonV1(ws.url) => (ws.phase \in {"closing", "closed"} /\ ws.up = <<>>)
            /\ AsksJsonV1(ws.url) => ws.clientId = Param(UrlQuery(ws.url), k_client_id)
                                     \/ (id = <<>> /\ ws.clientId = JStr(<<>>))

(***************************************************************************)
(* Scans that fail: the engine with every point at which a scan can throw. *)
(***************************************************************************)
\* a scan ends, by completing or by an exception
ScanEnds ==
    \/ GetProcessesThrows
    \/ GetProcessesReturns(CallerLists, EngineTables)
    \/ MatchingThrows(CallerLists, EngineTables)
    \/ HandlerThrows(CallerLists, EngineTables)

NextFaulty ==
    \/ InitScan
    \/ TimerFire
    \/ GetProcessesReturns(CallerLists, EngineTables)
    \/ GetProcessesThrows
    \/ MatchingThrows(CallerLists, EngineTables)
    \/ HandlerThrows(CallerLists, EngineTables)
    \/ Tick

\* getProcesses() settles: the promise awaited at line 135 resolves or rejects
SpecFaulty == Init /\ [][NextFaulty]_vars /\ WF_vars(ScanEnds)

\* the setInterval callback runs (lines 88-93)
TimerRuns == initPc = "done" /\ nextFire' # nextFire

\* C14: every scan that starts ends with the scanning guard cleared, whether
\* it completes or throws in the process listing, in the matching or in the
\* handler of an event; and the timer tick that follows a failed scan starts a
\* new scan.
C14_GuardReleased ==
    /\ [](isScanning = (inflight > 0))
    /\ (isScanning ~> ~isScanning)
    /\ [][failed'.n > failed.n => ~isScanning']_vars
    /\ [][(TimerRuns /\ failed.last) =>
            (isScanning' /\ inflight' = 1 /\ lastScanTime' = now)]_vars

\* the scan of init() failed in the handler, and the timer has started the next
C14_Witness ==
    /\ failed.n = 1
    /\ failed.where = "handler"
    /\ obs.scans = 0
    /\ calls.made = 2
    /\ calls.dropped = 0
    /\ isScanning
    /\ lastScanTime = now

\* C15: a scan that throws, in the process listing, in the matching or in the
\* handler of an event, leaves the Scan Cache and the Engine State (timestamps,
\* names, pids) as they were before it.
C15_FailedScanDiscarded ==
    [][failed'.n > failed.n => UNCHANGED <<cache, timestamps, names, pids>>]_vars

(***************************************************************************)
(* The spacing of scans.                                                   *)
(***************************************************************************)
\* a call of scan() passes the guard of line 127 and begins work
ScanStarts == inflight' = inflight + 1

\* C16: two scan starts are never less than 1000 ms apart, whether the scans
\* are started by init(), by the timer or by a direct call of scan().
C16_MinSpacing ==
    [][(ScanStarts /\ calls.made > calls.dropped) =>
            lastScanTime' - lastScanTime >= MIN_SCAN_INTERVAL]_vars

(***************************************************************************)
(* The native session before and after its handshake.                      *)
(***************************************************************************)
\* the frames of a type the server has written to the client
Written(type) == {j \in 1..Len(conn.out) : readInt32LE(conn.out[j], 0) = type}

\* C17: while no HANDSHAKE frame of a native connection has been accepted, a
\* FRAME frame gives no message event and a PING frame is not answered with a
\* PONG frame; and every message event of a session comes after its connection
\* event.
C17_AwaitingHandshake ==
    /\ Heard("connection") = {} => (Heard("message") = {} /\ Written(Types.PONG) = {})
    /\ \A i \in Heard("message") : \E j \in Heard("connection") : j < i

\* the place of the first HANDSHAKE frame in the client's stream, 0 without one
FirstHandshakeAt ==
    LET at == {i \in 1..Len(net.frames) : net.frames[i].type = Types.HANDSHAKE}
    IN  IF at = {} THEN 0 ELSE CHOOSE i \in at : \A j \in at : i <= j

\* the FRAME frames with a JSON payload that have arrived after the handshake
ArrivedRequests ==
    SelectSeq(SubSeq(net.frames, FirstHandshakeAt + 1, Delivered),
              LAMBDA f : f.type = Types.FRAME /\ f.data # JUndefined)

\* the message events passed to the handler so far
MessagesUp == SelectSeq(conn.up, LAMBDA u : u.h = "message")

\* C18: in a native session whose handshake was accepted, the message events
\* passed to the handler are the payloads of the FRAME frames with a JSON
\* payload that have arrived, one event for each frame, in the order of
\* arrival, whatever fields the payload has.
C18_FrameDelivery ==
    Heard("connection") # {} =>
        /\ Len(MessagesUp) = Len(ArrivedRequests)
        /\ \A k \in 1..Len(MessagesUp) : MessagesUp[k].msg = ArrivedRequests[k].data

\* the socket after the first frame of the client alone has been read
AfterFirstFrame == onReadable([NewSocket EXCEPT !.buf = ClientBytes(net.frames[1])])

\* what a session shows of itself, but for the close event of its socket
Session(c) ==
    [clientId |-> c.clientId, destroyed |-> c.destroyed, ended |-> c.ended,
     out |-> c.out, registrations |-> c.registrations,
     listeners |-> <<c.errorListener, c.closeListener, c.requestListener>>,
     up |-> SelectSeq(c.up, LAMBDA u : u.h # "close")]

\* C19: on one native connection the connection event is emitted at most once,
\* and a HANDSHAKE frame that arrives after a first HANDSHAKE frame was
\* processed is ignored: the clientId, the events passed on, the listeners
\* registered, the frames written and the state of the socket are those the
\* first frame left.
C19_HandshakeOnce ==
    /\ Cardinality(Heard("connection")) <= 1
    /\ conn.registrations <= 1
    /\ (/\ Len(net.frames) = 2
        /\ net.frames[1].type = Types.HANDSHAKE
        /\ net.frames[2].type = Types.HANDSHAKE
        /\ Delivered = 2) => Session(conn) = Session(AfterFirstFrame)

\* a handshake was accepted for client a, and a HANDSHAKE frame for client b
\* has arrived after it
C19_Witness ==
    /\ net.frames = <<f_hello, f_again>>
    /\ Delivered = 2
    /\ net.joined = FALSE
    /\ conn.buf = <<>>
    /\ conn.clientId = JStr(<<"a">>)
    /\ conn.registrations = 1
    /\ ~conn.destroyed

(***************************************************************************)
(* Startup of the native server: getAvailableSocket and start.             *)
(***************************************************************************)
\* the hosts of the model: the first k paths are taken, the next is not
World(k, taken, free) ==
    [i \in 0..(PROBES - 1) |->
        IF i < k THEN (IF i % 2 = 0 THEN taken ELSE "live")
        ELSE IF i = k THEN free ELSE "absent"]

Worlds ==
    {World(k, taken, free) : k \in 0..PROBES, taken \in {"live", "denied"},
                             free \in {"absent", "stale", "stuck"}}

\* one turn of the loop of getAvailableSocket (lines 125-148)
Probe ==
    /\ boot.pc = "probe"
    /\ boot.i < PROBES
    /\ LET event == ProbeEvent(paths[boot.i])
           seen == Append(boot.probed, [i |-> boot.i, event |-> event])
       IN  /\ paths' = IF event \in {"ECONNREFUSED", "ENOENT"}
                       THEN [paths EXCEPT ![boot.i] = unlinkSync(@)]
                       ELSE paths
           /\ boot' = IF connected(event)
                      THEN [boot EXCEPT !.i = @ + 1, !.probed = seen]
                      ELSE [boot EXCEPT !.pc = "listen", !.path = boot.i, !.probed = seen]
    /\ UNCHANGED <<engineVars, ipcVars, ws, rival>>

\* line 149: the loop has ended, getAvailableSocket throws and start() rejects
ProbesExhausted ==
    /\ boot.pc = "probe"
    /\ boot.i >= PROBES
    /\ boot' = [boot EXCEPT !.pc = "failed", !.error = "ran out of tries to find socket"]
    /\ UNCHANGED <<engineVars, ipcVars, ws, paths, rival>>

\* lines 171-190: listen on the chosen path; the server's error event rejects
\* start(), its listening event resolves it
Listen ==
    /\ boot.pc = "listen"
    /\ IF Bindable(paths[boot.path])
       THEN /\ paths' = [paths EXCEPT ![boot.path] = "ours"]
            /\ boot' = [boot EXCEPT !.pc = "listening"]
       ELSE /\ boot' = [boot EXCEPT !.pc = "failed", !.error = "EADDRINUSE"]
            /\ UNCHANGED paths
    /\ UNCHANGED <<engineVars, ipcVars, ws, rival>>

\* the path start() is about to probe or to bind
PathInHand == IF boot.pc = "listen" THEN boot.path ELSE boot.i

\* another program starts to listen on that path
OtherServerStarts ==
    /\ boot.pc \in {"probe", "listen"}
    /\ PathInHand < PROBES
    /\ paths[PathInHand] \in {"absent", "stale"}
    /\ paths' = [paths EXCEPT ![PathInHand] = "live"]
    /\ UNCHANGED <<engineVars, ipcVars, ws, boot, rival>>

\* the program listening on that path dies and leaves its socket file
OtherServerExits ==
    /\ boot.pc \in {"probe", "listen"}
    /\ PathInHand < PROBES
    /\ paths[PathInHand] = "live"
    /\ paths' = [paths EXCEPT ![PathInHand] = "stale"]
    /\ UNCHANGED <<engineVars, ipcVars, ws, boot, rival>>

InitStart ==
    /\ EngineInit({<<>>})
    /\ conn = NewSocket
    /\ net = Stream(<<>>)
    /\ peer = NewSocket
    /\ ws = NewWebSocket
    /\ paths \in Worlds
    /\ boot = NewBoot
    /\ rival = NoRival

NextStart ==
    \/ Probe
    \/ ProbesExhausted
    \/ Listen
    \/ OtherServerStarts
    \/ OtherServerExits

SpecStart == InitStart /\ [][NextStart]_vars

\* the probes that were refused or found no such path
FreeProbes ==
    {j \in 1..Len(boot.probed) : boot.probed[j].event \in {"ECONNREFUSED", "ENOENT"}}

\* the index of the first path whose probe was refused or found no such path
LowestFree == boot.probed[CHOOSE j \in FreeProbes : \A k \in FreeProbes : j <= k].i

\* the paths this server listens on
Ours == {i \in DOMAIN paths : paths[i] = "ours"}

StartupOver == boot.pc \in {"listening", "failed"}

ProbedInOrder == \A j \in 1..Len(boot.probed) : boot.probed[j].i = j - 1

NeverBindsAccepted ==
    \A j \in 1..Len(boot.probed) :
        boot.probed[j].event = "connect" => boot.probed[j].i \notin Ours

AllInUseFails ==
    (StartupOver /\ Len(boot.probed) = PROBES /\ FreeProbes = {}) =>
        (boot.pc = "failed" /\ Ours = {})

\* C20: startup probes the paths 0..9 in increasing order and binds the
\* lowest-index path whose probe is refused or finds no such path; it never
\* binds a path on which a live server accepted the probe; when all ten probes
\* find their path in use, startup fails and nothing is bound.
C20_PathSelection ==
    /\ ProbedInOrder
    /\ (StartupOver /\ FreeProbes # {}) => (boot.pc = "listening" /\ Ours = {LowestFree})
    /\ NeverBindsAccepted
    /\ AllInUseFails

\* C20, amended: startup probes the paths 0..9 in increasing order and tries to
\* bind the lowest-index path whose probe is refused or finds no such path, and
\* no other: when it listens, it listens on that path alone, and when that
\* path cannot be bound startup fails and nothing is bound; it never binds a
\* path on which a live server accepted the probe; when all ten probes find
\* their path in use, startup fails and nothing is bound.
C20_PathSelectionOrFail ==
    /\ ProbedInOrder
    /\ boot.pc \in {"listen", "listening"} => (FreeProbes # {} /\ boot.path = LowestFree)
    /\ Ours = IF boot.pc = "listening" THEN {boot.path} ELSE {}
    /\ (boot.pc = "failed" /\ FreeProbes # {}) =>
            (boot.path = LowestFree /\ boot.error = "EADDRINUSE" /\ ~Bindable(paths[boot.path]))
    /\ NeverBindsAccepted
    /\ AllInUseFails

\* three paths were taken, the fourth held a stale socket file and was bound
C20_Witness ==
    /\ boot.pc = "listening"
    /\ Len(boot.probed) = 4
    /\ boot.probed[1].event = "connect"
    /\ boot.probed[4].event = "ECONNREFUSED"
    /\ Ours = {3}

(***************************************************************************)
(* Two instances of the server start on one host.  Each system call of an  *)
(* instance is a step of its own: the connect of a probe, the unlink in    *)
(* the probe's error listener, and the bind of listen.                     *)
(***************************************************************************)
\* line 128: the probe socket of the instance b gets its event
Connects(b, bNext) ==
    /\ b.pc = "probe"
    /\ b.i < PROBES
    /\ bNext = [b EXCEPT !.pc = "probed",
                         !.probed = Append(@, [i |-> b.i,
                                               event |-> InstanceProbeEvent(paths[b.i])])]
    /\ UNCHANGED paths

\* lines 129-147: the listener of that event runs, and the loop goes on or ends
Handles(b, bNext) ==
    /\ b.pc = "probed"
    /\ LET event == b.probed[Len(b.probed)].event
       IN  /\ paths' = IF event \in {"ECONNREFUSED", "ENOENT"}
                       THEN [paths EXCEPT ![b.i] = unlinkSync(@)]
                       ELSE paths
           /\ bNext = IF connected(event)
                      THEN [b EXCEPT !.pc = "probe", !.i = @ + 1]
                      ELSE [b EXCEPT !.pc = "listen", !.path = b.i]

\* line 149 for the instance b
Exhausts(b, bNext) ==
    /\ b.pc = "probe"
    /\ b.i >= PROBES
    /\ bNext = [b EXCEPT !.pc = "failed", !.error = "ran out of tries to find socket"]
    /\ UNCHANGED paths

\* lines 171-190 for the instance b, whose socket file is marked mine
Binds(b, bNext, mine) ==
    /\ b.pc = "listen"
    /\ IF Bindable(paths[b.path])
       THEN /\ paths' = [paths EXCEPT ![b.path] = mine]
            /\ bNext = [b EXCEPT !.pc = "listening"]
       ELSE /\ bNext = [b EXCEPT !.pc = "failed", !.error = "EADDRINUSE"]
            /\ UNCHANGED paths

FirstConnects == Connects(boot, boot') /\ UNCHANGED <<engineVars, ipcVars, ws, rival>>
FirstHandles == Handles(boot, boot') /\ UNCHANGED <<engineVars, ipcVars, ws, rival>>
FirstExhausts == Exhausts(boot, boot') /\ UNCHANGED <<engineVars, ipcVars, ws, rival>>
FirstBinds == Binds(boot, boot', "ours") /\ UNCHANGED <<engineVars, ipcVars, ws, rival>>
SecondConnects == Connects(rival, rival') /\ UNCHANGED <<engineVars, ipcVars, ws, boot>>
SecondHandles == Handles(rival, rival') /\ UNCHANGED <<engineVars, ipcVars, ws, boot>>
SecondExhausts == Exhausts(rival, rival') /\ UNCHANGED <<engineVars, ipcVars, ws, boot>>
SecondBinds == Binds(rival, rival', "rivals") /\ UNCHANGED <<engineVars, ipcVars, ws, boot>>

InitTwo ==
    /\ EngineInit({<<>>})
    /\ conn = NewSocket
    /\ net = Stream(<<>>)
    /\ peer = NewSocket
    /\ ws = NewWebSocket
    /\ paths \in Worlds
    /\ boot = NewBoot
    /\ rival = NewBoot

NextTwo ==
    \/ FirstConnects
    \/ FirstHandles
    \/ FirstExhausts
    \/ FirstBinds
    \/ SecondConnects
    \/ SecondHandles
    \/ SecondExhausts
    \/ SecondBinds

SpecTwo == InitTwo /\ [][NextTwo]_vars

\* an instance that listens still has its socket file on its path
FileKept ==
    /\ boot.pc = "listening" => paths[boot.path] = "ours"
    /\ rival.pc = "listening" => paths[rival.path] = "rivals"

\* the two instances are not both started on one path
PathsApart ==
    ~(boot.pc = "listening" /\ rival.pc = "listening" /\ boot.path = rival.path)

\* C21: when two instances of the server look for their socket path at the
\* same time, in every interleaving of their probes, their removals of stale
\* files and their listens, neither removes the socket file of the other
\* once that one listens, and they never both start on the same path.
C21_Coexistence == FileKept /\ PathsApart

(***************************************************************************)
(* The Engine State after a scan.                                          *)
(***************************************************************************)
\* the Engine State holds exactly the games the last completed scan detected,
\* each with the pid of its set event in that scan
EngineConsistent ==
    /\ DOMAIN timestamps = DetectedIds
    /\ DOMAIN names = DetectedIds
    /\ DOMAIN pids = DetectedIds
    /\ \A id \in DetectedIds :
            /\ Cardinality({e \in SetEvents(obs.events) : e.socketId = id}) = 1
            /\ \A e \in SetEvents(obs.events) : e.socketId = id => pids[id] = e.pid

\* C22: after every scan that completes without throwing, the key sets of
\* timestamps, names and pids are equal to each other and to the set of the
\* ids of the games detected in that scan, and pids[id] is the pid of the
\* set-activity event of that scan for id.
C22_EngineConsistency ==
    [][obs'.scans > obs.scans => EngineConsistent']_vars

\* a completed scan detected two games and lost a third
C22_Witness ==
    /\ obs.scans >= 2
    /\ Cardinality(DetectedIds) = 2
    /\ ClearEvents(obs.events) # {}
    /\ DOMAIN pids = DetectedIds
====
